---------------------------- MODULE Spec2Model ----------------------------
(***************************************************************************)
(* Model of the wallet agent's request pipeline                            *)
(* (bot/src/llm/wallet_agent.py, bot/src/llm/tools.py, bot/src/llm/        *)
(* domains.py):                                                            *)
(*   run -> classify -> check_wallet -> END                                *)
(*                                   | select_tool -> run_tool -> END      *)
(*                                   | chat -> END                         *)
(*                                                                         *)
(* Representation.                                                         *)
(*  - A Python str that the code scans (the user's text, a keyword, a      *)
(*    name or address cut out of the text) is a sequence of one-character  *)
(*    strings, so that lower(), `in` and re.search are computed.           *)
(*  - A Python str that the code only passes around (tool names, caller    *)
(*    ids, wallet addresses, messages) is a TLA+ string; a formatted       *)
(*    message f"prefix{x}" is the pair <<"prefix", x>>.                    *)
(*  - An Optional value, a dict key that may be missing, and an AgentState *)
(*    key that may be unset (TypedDict, total=False) is a sequence of      *)
(*    length at most one: <<>> is None / missing, <<v>> is v.              *)
(*  - A float is [m |-> digits, e |-> number of fraction digits]           *)
(*    (value m / 10^e); a confidence is in hundredths (0.8 is 80).         *)
(***************************************************************************)
EXTENDS Integers, Sequences, FiniteSets, TLC

----------------------------------------------------------------------------
(* Optional values and Python truthiness                                   *)

None == <<>>
Some(v) == <<v>>
IsNone(o) == o = <<>>
\* bool(x) for an Optional[str]: None and "" are falsy
Truthy(o) == o # <<>> /\ o[1] # ""

----------------------------------------------------------------------------
(* Characters and scanned text                                             *)

UpperChars ==
  <<"A", "B", "C", "D", "E", "F", "G", "H", "I", "J", "K", "L", "M",
    "N", "O", "P", "Q", "R", "S", "T", "U", "V", "W", "X", "Y", "Z">>
LowerChars ==
  <<"a", "b", "c", "d", "e", "f", "g", "h", "i", "j", "k", "l", "m",
    "n", "o", "p", "q", "r", "s", "t", "u", "v", "w", "x", "y", "z">>
DigitChars == <<"0", "1", "2", "3", "4", "5", "6", "7", "8", "9">>

Range(s) == {s[i] : i \in DOMAIN s}
IndexOf(c, s) == CHOOSE i \in DOMAIN s : s[i] = c

\* str.lower() on one character, then on a text
LowerChar(c) == IF c \in Range(UpperChars) THEN LowerChars[IndexOf(c, UpperChars)] ELSE c
Lower(s) == [i \in DOMAIN s |-> LowerChar(s[i])]

\* k in s (substring test), s[i..] starts with k
StartsAt(k, s, i) == i + Len(k) - 1 <= Len(s) /\ \A j \in 1..Len(k) : s[i + j - 1] = k[j]
Contains(s, k) == \E i \in 1..(Len(s) + 1) : StartsAt(k, s, i)

DigitSet == Range(DigitChars)
HexSet == DigitSet \cup {"a", "b", "c", "d", "e", "f", "A", "B", "C", "D", "E", "F"}
SpaceSet == {" ", "\t", "\n"}
NameSet == Range(LowerChars) \cup Range(UpperChars) \cup DigitSet \cup {"_", "-"}
IsDigit(c) == c \in DigitSet
IsHex(c) == c \in HexSet
IsSpace(c) == c \in SpaceSet
\* the regex class [a-zA-Z0-9_\-]
IsNameChar(c) == c \in NameSet

\* 40 hex digits after 0x: the shortest token find_address accepts
AddrC == <<"0", "x">> \o [i \in 1..40 |-> "c"]

----------------------------------------------------------------------------
(* Request texts the model draws user_input from                           *)

\* "what's my balance?"
T_balance ==
  <<"w", "h", "a", "t", "'", "s", " ", "m", "y", " ", "b", "a", "l", "a", "n",
     "c", "e", "?">>
\* "send 1 SUI to alice"
T_send ==
  <<"s", "e", "n", "d", " ", "1", " ", "S", "U", "I", " ", "t", "o", " ", "a", "l",
     "i", "c", "e">>
\* "hello"
T_hello ==
  <<"h", "e", "l", "l", "o">>
\* "add contact bob 0xccc...c (40 hex digits)"
T_add ==
  <<"a", "d", "d", " ", "c", "o", "n", "t", "a", "c", "t", " ", "b", "o", "b", " ">> \o AddrC
\* "send sui to alice"
T_send_no_amount ==
  <<"s", "e", "n", "d", " ", "s", "u", "i", " ", "t", "o", " ", "a", "l",
     "i", "c", "e">>
\* "Show my Balance history"
T_mixed ==
  <<"S", "h", "o", "w", " ", "m", "y", " ", "B", "a", "l", "a", "n", "c", "e", " ",
     "h", "i", "s", "t", "o", "r", "y">>
\* "show my address book"
T_address_book ==
  <<"s", "h", "o", "w", " ", "m", "y", " ", "a", "d", "d", "r", "e", "s",
     "s", " ", "b", "o", "o", "k">>
\* "delete bob"
T_delete ==
  <<"d", "e", "l", "e", "t", "e", " ", "b", "o", "b">>
\* "last 5 transactions"
T_history ==
  <<"l", "a", "s", "t", " ", "5", " ", "t", "r", "a", "n", "s", "a", "c", "t",
     "i", "o", "n", "s">>
\* "reset please"
T_reset ==
  <<"r", "e", "s", "e", "t", " ", "p", "l", "e", "a", "s", "e">>
\* "full reset and disconnect wallet"
T_full_reset ==
  <<"f", "u", "l", "l", " ", "r", "e", "s", "e", "t", " ", "a", "n", "d", " ",
    "d", "i", "s", "c", "o", "n", "n", "e", "c", "t", " ", "w", "a", "l", "l", "e", "t">>
\* "history 0"
T_history_zero == <<"h", "i", "s", "t", "o", "r", "y", " ", "0">>
\* "last 25 transactions"
T_history_many ==
  <<"l", "a", "s", "t", " ", "2", "5", " ", "t", "r", "a", "n", "s", "a", "c", "t",
     "i", "o", "n", "s">>
\* "history 0.5"
T_history_half == <<"h", "i", "s", "t", "o", "r", "y", " ", "0", ".", "5">>

Texts ==
  <<T_balance, T_send, T_hello, T_add, T_send_no_amount, T_mixed, T_address_book,
    T_delete, T_history, T_reset, T_full_reset, T_history_zero, T_history_many,
    T_history_half>>
TextIds == DOMAIN Texts

----------------------------------------------------------------------------
(* Domains (domains.py) and the keyword table (wallet_agent.py)            *)

Domain == {"payments", "balance", "nfts", "contacts", "history", "help", "conversation"}

KEYWORD_TO_DOMAIN ==
  <<
  [domain |-> "balance", keywords |-> <<
      <<"b", "a", "l", "a", "n", "c", "e">>,
      <<"h", "o", "w", " ", "m", "u", "c", "h", " ", "s", "u", "i">>,
      <<"h", "o", "w", " ", "m", "u", "c", "h", " ", "d", "o", " ", "i", " ", "h", "a", "v", "e">>,
      <<"c", "h", "e", "c", "k", " ", "w", "a", "l", "l", "e", "t">>,
      <<"m", "y", " ", "f", "u", "n", "d", "s">>,
      <<"w", "a", "l", "l", "e", "t", " ", "b", "a", "l", "a", "n", "c", "e">>,
      <<"s", "h", "o", "w", " ", "b", "a", "l", "a", "n", "c", "e">> >>],
  [domain |-> "payments", keywords |-> <<
      <<"s", "e", "n", "d">>,
      <<"t", "r", "a", "n", "s", "f", "e", "r">>,
      <<"p", "a", "y">>,
      <<"g", "i", "v", "e", " ", "s", "u", "i">> >>],
  [domain |-> "contacts", keywords |-> <<
      <<"c", "o", "n", "t", "a", "c", "t", "s">>,
      <<"c", "o", "n", "t", "a", "c", "t">>,
      <<"a", "d", "d", "r", "e", "s", "s", " ", "b", "o", "o", "k">>,
      <<"a", "d", "d", " ", "c", "o", "n", "t", "a", "c", "t">>,
      <<"d", "e", "l", "e", "t", "e", " ", "c", "o", "n", "t", "a", "c", "t">>,
      <<"r", "e", "m", "o", "v", "e", " ", "c", "o", "n", "t", "a", "c", "t">>,
      <<"s", "a", "v", "e", " ", "a", "d", "d", "r", "e", "s", "s">>,
      <<"s", "h", "o", "w", " ", "c", "o", "n", "t", "a", "c", "t", "s">>,
      <<"m", "y", " ", "c", "o", "n", "t", "a", "c", "t", "s">> >>],
  [domain |-> "history", keywords |-> <<
      <<"h", "i", "s", "t", "o", "r", "y">>,
      <<"t", "r", "a", "n", "s", "a", "c", "t", "i", "o", "n", "s">>,
      <<"r", "e", "c", "e", "n", "t">>,
      <<"a", "c", "t", "i", "v", "i", "t", "y">>,
      <<"w", "h", "a", "t", " ", "d", "i", "d", " ", "i", " ", "s", "e", "n", "d">>,
      <<"w", "h", "a", "t", " ", "d", "i", "d", " ", "i", " ", "r", "e", "c", "e", "i", "v", "e">>,
      <<"s", "h", "o", "w", " ", "h", "i", "s", "t", "o", "r", "y">>,
      <<"t", "r", "a", "n", "s", "a", "c", "t", "i", "o", "n", " ", "h", "i", "s", "t", "o", "r", "y">> >>],
  [domain |-> "nfts", keywords |-> <<
      <<"n", "f", "t">>,
      <<"n", "f", "t", "s">>,
      <<"c", "o", "l", "l", "e", "c", "t", "i", "b", "l", "e", "s">>,
      <<"d", "i", "g", "i", "t", "a", "l", " ", "a", "r", "t">>,
      <<"s", "h", "o", "w", " ", "n", "f", "t">>,
      <<"m", "y", " ", "n", "f", "t">> >>],
  [domain |-> "help", keywords |-> <<
      <<"h", "e", "l", "p">>,
      <<"c", "o", "m", "m", "a", "n", "d", "s">>,
      <<"w", "h", "a", "t", " ", "c", "a", "n", " ", "y", "o", "u", " ", "d", "o">>,
      <<"h", "o", "w", " ", "d", "o", " ", "i">>,
      <<"r", "e", "s", "e", "t">>,
      <<"c", "l", "e", "a", "r", " ", "h", "i", "s", "t", "o", "r", "y">>,
      <<"s", "t", "a", "r", "t", " ", "o", "v", "e", "r">>,
      <<"s", "t", "a", "r", "t">>,
      <<"c", "o", "n", "n", "e", "c", "t">>,
      <<"l", "i", "n", "k", " ", "w", "a", "l", "l", "e", "t">> >>]
  >>

\* does some keyword of table row `row` occur in the text
RowMatches(row, text_lower) ==
  \E k \in DOMAIN row.keywords : Contains(text_lower, row.keywords[k])

\* a faulty variant of keyword_classify: the last matching row wins
keyword_classify_last_row(user_input) ==
  LET text_lower == Lower(user_input)
      hits == {n \in DOMAIN KEYWORD_TO_DOMAIN : RowMatches(KEYWORD_TO_DOMAIN[n], text_lower)}
  IN IF hits = {} THEN None
     ELSE Some(KEYWORD_TO_DOMAIN[CHOOSE n \in hits : \A m \in hits : n >= m].domain)

\* keyword_classify: the first row, in table order, with a keyword in the
\* lower-cased text; None when no row matches
keyword_classify(user_input) ==
  LET text_lower == Lower(user_input)
      hits == {n \in DOMAIN KEYWORD_TO_DOMAIN : RowMatches(KEYWORD_TO_DOMAIN[n], text_lower)}
  IN IF hits = {} THEN None
     ELSE Some(KEYWORD_TO_DOMAIN[CHOOSE n \in hits : \A m \in hits : n <= m].domain)

\* keyword_classify over the request texts, computed once
keyword_domain_of == [t \in TextIds |-> keyword_classify(Texts[t])]

----------------------------------------------------------------------------
(* Argument bags, floats and the regular expressions of the fallback      *)

\* a tool-argument dict: every key the tools declare, <<>> when missing
NoArgs ==
  [wallet_address |-> None, user_id |-> None, recipient |-> None, amount |-> None,
   name |-> None, address |-> None, limit |-> None]

\* the end of the longest run of characters of the class chars that starts
\* at i (i - 1 when s[i] is not of the class)
RunEnd(chars, s, i) ==
  CHOOSE j \in (i - 1)..Len(s) :
    /\ \A k \in i..j : s[k] \in chars
    /\ j = Len(s) \/ s[j + 1] \notin chars

\* the leftmost of the positions at which a match starts (re.search scans
\* left to right), 0 when there is none
Leftmost(starts) ==
  IF starts = {} THEN 0 ELSE CHOOSE p \in starts : \A q \in starts : p <= q

DigitValue(c) == IndexOf(c, DigitChars) - 1
DigitsToInt(ds) ==
  LET value[n \in 0..Len(ds)] == IF n = 0 THEN 0 ELSE 10 * value[n - 1] + DigitValue(ds[n])
  IN value[Len(ds)]

RECURSIVE Pow10(_)
Pow10(n) == IF n = 0 THEN 1 ELSE 10 * Pow10(n - 1)

\* float("<int>.<frac>"), the fraction stripped of trailing zeros so that
\* equal floats are equal values
ToFloat(int, frac) ==
  LET kept == CHOOSE n \in 0..Len(frac) :
                /\ \A k \in (n + 1)..Len(frac) : frac[k] = "0"
                /\ n = 0 \/ frac[n] # "0"
      f == SubSeq(frac, 1, kept)
  IN [m |-> DigitsToInt(int \o f), e |-> Len(f)]
\* int(x) for a non-negative float
FloatToInt(x) == x.m \div Pow10(x.e)

\* the number whose integer digits are s[i..j], with its fraction if a "."
\* and a digit follow
number_from(s, i, j) ==
  IF j + 2 <= Len(s) /\ s[j + 1] = "." /\ IsDigit(s[j + 2])
  THEN ToFloat(SubSeq(s, i, j), SubSeq(s, j + 2, RunEnd(DigitSet, s, j + 2)))
  ELSE ToFloat(SubSeq(s, i, j), <<>>)

\* first_number: re.search(r"([0-9]+(?:\.[0-9]+)?)", s)
first_number(s) ==
  LET i == Leftmost({p \in 1..Len(s) : IsDigit(s[p])})
  IN IF i = 0 THEN None ELSE Some(number_from(s, i, RunEnd(DigitSet, s, i)))

\* "0x" at s[i..] followed by n hex digits, of which at most 64 are taken
address_from(s, i, n) == SubSeq(s, i, i + 1 + (IF n > 64 THEN 64 ELSE n))

\* find_address: re.search(r"(0x[a-fA-F0-9]{40,64})", s)
find_address(s) ==
  LET i == Leftmost({p \in 1..Len(s) :
                       /\ StartsAt(<<"0", "x">>, s, p)
                       /\ \A k \in 1..40 : p + 1 + k <= Len(s) /\ IsHex(s[p + 1 + k])})
  IN IF i = 0 THEN None ELSE Some(address_from(s, i, RunEnd(HexSet, s, i + 2) - (i + 1)))

\* verb v (any case) at s[p..], followed by a space
VerbAt(s, p, v) ==
  /\ p + Len(v) <= Len(s)
  /\ \A j \in 1..Len(v) : LowerChar(s[p + j - 1]) = v[j]
  /\ IsSpace(s[p + Len(v)])
\* where the spaces after the verb end
WordStart(s, p, v) == RunEnd(SpaceSet, s, p + Len(v)) + 1
WordMatchAt(verbs, s, p) ==
  \E v \in verbs :
    VerbAt(s, p, v) /\ WordStart(s, p, v) <= Len(s) /\ IsNameChar(s[WordStart(s, p, v)])
\* the longest run of name characters from s[w]
word_from(s, w) == SubSeq(s, w, RunEnd(NameSet, s, w))

\* re.search(r"(?:v1|v2)\s+([a-zA-Z0-9_\-]+)", s, re.IGNORECASE).group(1)
word_after(verbs, s) ==
  LET p0 == Leftmost({p \in 1..Len(s) : WordMatchAt(verbs, s, p)})
  IN IF p0 = 0 THEN None
     ELSE Some(word_from(s, WordStart(s, p0, CHOOSE v \in verbs : VerbAt(s, p0, v))))

W_delete == <<"d", "e", "l", "e", "t", "e">>
W_remove == <<"r", "e", "m", "o", "v", "e">>
W_add == <<"a", "d", "d">>
W_save == <<"s", "a", "v", "e">>
W_to == <<"t", "o">>
W_reset == <<"r", "e", "s", "e", "t">>
W_clear == <<"c", "l", "e", "a", "r">>

Selection(tool, args, msg) == [tool |-> tool, args |-> args, msg |-> msg]

\* the history / nfts branch (lines 337-339, 343-345): an optional limit
limit_args(limit) ==
  IF limit # None /\ limit[1].m # 0
  THEN [NoArgs EXCEPT !.limit = Some(FloatToInt(limit[1]))]
  ELSE NoArgs

\* lines 355-359
contacts_delete(name_match) ==
  IF name_match # None
  THEN Selection(Some("delete_contact"), [NoArgs EXCEPT !.name = name_match], None)
  ELSE Selection(None, NoArgs, Some(<<"Please tell me which contact to remove.">>))

\* lines 361-367
contacts_add(address, name_match) ==
  IF address # None /\ name_match # None
  THEN Selection(Some("add_new_contact"),
                 [NoArgs EXCEPT !.name = name_match, !.address = address], None)
  ELSE Selection(None, NoArgs, Some(<<"To add a contact, say: add alice 0x123...">>))

\* a faulty variant of contacts_fallback: the creation verbs are scanned
\* before the removal verbs
contacts_fallback_add_first(text, user_input) ==
  IF Contains(text, W_add) \/ Contains(text, W_save)
  THEN contacts_add(find_address(user_input), word_after({W_add, W_save}, user_input))
  ELSE IF Contains(text, W_delete) \/ Contains(text, W_remove)
  THEN contacts_delete(word_after({W_delete, W_remove}, user_input))
  ELSE Selection(Some("list_contacts"), NoArgs, None)

\* lines 353-368
contacts_fallback(text, user_input) ==
  IF Contains(text, W_delete) \/ Contains(text, W_remove)
  THEN contacts_delete(word_after({W_delete, W_remove}, user_input))
  ELSE IF Contains(text, W_add) \/ Contains(text, W_save)
  THEN contacts_add(find_address(user_input), word_after({W_add, W_save}, user_input))
  ELSE Selection(Some("list_contacts"), NoArgs, None)

\* a faulty variant of payments_recipient: the word after "to" is tried
\* first, the address only without one
payments_recipient_to_first(address, user_input) ==
  IF word_after({W_to}, user_input) # None THEN word_after({W_to}, user_input) ELSE address

\* lines 372-377: an address, else the word after "to"
payments_recipient(address, user_input) ==
  IF address # None THEN address ELSE word_after({W_to}, user_input)

\* lines 378-384
payments_select(amount, recipient) ==
  IF amount = None \/ amount[1].m <= 0
  THEN Selection(None, NoArgs,
                 Some(<<"Please provide an amount to send, e.g., 'send 1 SUI to alice'.">>))
  ELSE IF recipient = None \/ recipient[1] = <<>>
  THEN Selection(None, NoArgs,
                 Some(<<"Please provide a recipient (0x address or contact name).">>))
  ELSE Selection(Some("send_sui"),
                 [NoArgs EXCEPT !.amount = amount, !.recipient = recipient], None)

\* lines 370-384
payments_fallback(user_input) ==
  payments_select(first_number(user_input),
                  payments_recipient(find_address(user_input), user_input))

\* a faulty variant of fallback_tool_selection: a domain without a branch
\* of its own gets the help action
fallback_tool_selection_help_by_default(domain, user_input) ==
  LET text == Lower(user_input)
  IN CASE domain = "balance" -> Selection(Some("get_balance"), NoArgs, None)
       [] domain = "history" -> Selection(Some("get_transaction_history"), limit_args(first_number(text)), None)
       [] domain = "nfts" -> Selection(Some("get_nfts"), limit_args(first_number(text)), None)
       [] domain = "help" ->
            IF Contains(text, W_reset) \/ Contains(text, W_clear)
            THEN Selection(Some("reset_conversation"), NoArgs, None)
            ELSE Selection(Some("get_help"), NoArgs, None)
       [] domain = "contacts" -> contacts_fallback(text, user_input)
       [] domain = "payments" -> payments_fallback(user_input)
       [] OTHER -> Selection(Some("get_help"), NoArgs, None)

\* a faulty variant of fallback_tool_selection: in the help domain a text
\* with "reset" selects full_reset
fallback_tool_selection_full_reset(domain, user_input) ==
  LET text == Lower(user_input)
  IN CASE domain = "balance" -> Selection(Some("get_balance"), NoArgs, None)
       [] domain = "history" -> Selection(Some("get_transaction_history"), limit_args(first_number(text)), None)
       [] domain = "nfts" -> Selection(Some("get_nfts"), limit_args(first_number(text)), None)
       [] domain = "help" ->
            IF Contains(text, W_reset) \/ Contains(text, W_clear)
            THEN Selection(Some("full_reset"), NoArgs, None)
            ELSE Selection(Some("get_help"), NoArgs, None)
       [] domain = "contacts" -> contacts_fallback(text, user_input)
       [] domain = "payments" -> payments_fallback(user_input)
       [] OTHER -> Selection(None, NoArgs, None)

\* _fallback_tool_selection: (tool_name, tool_args, error_msg)
fallback_tool_selection(domain, user_input) ==
  LET text == Lower(user_input)
  IN CASE domain = "balance" -> Selection(Some("get_balance"), NoArgs, None)
       [] domain = "history" -> Selection(Some("get_transaction_history"), limit_args(first_number(text)), None)
       [] domain = "nfts" -> Selection(Some("get_nfts"), limit_args(first_number(text)), None)
       [] domain = "help" ->
            IF Contains(text, W_reset) \/ Contains(text, W_clear)
            THEN Selection(Some("reset_conversation"), NoArgs, None)
            ELSE Selection(Some("get_help"), NoArgs, None)
       [] domain = "contacts" -> contacts_fallback(text, user_input)
       [] domain = "payments" -> payments_fallback(user_input)
       [] OTHER -> Selection(None, NoArgs, None)

\* _fallback_tool_selection over the domains and request texts, computed once
fallback_of ==
  [d \in Domain |-> [t \in TextIds |-> fallback_tool_selection(d, Texts[t])]]

----------------------------------------------------------------------------
(* The action registry and the domain-action map (tools.py)               *)

\* each registered tool's declared parameters, in signature order
TOOL_REGISTRY ==
  [get_balance |-> <<"wallet_address">>,
   send_sui |-> <<"recipient", "amount", "wallet_address", "user_id">>,
   list_contacts |-> <<"user_id">>,
   add_new_contact |-> <<"user_id", "name", "address">>,
   delete_contact |-> <<"user_id", "name">>,
   get_transaction_history |-> <<"wallet_address", "limit">>,
   get_nfts |-> <<"wallet_address", "limit">>,
   get_help |-> <<>>,
   reset_conversation |-> <<"user_id">>,
   disconnect_wallet |-> <<"user_id">>,
   full_reset |-> <<"user_id">>]
ToolNames == DOMAIN TOOL_REGISTRY
Declares(tool, param) == param \in Range(TOOL_REGISTRY[tool])

DOMAIN_TOOLS ==
  [balance |-> <<"get_balance">>,
   payments |-> <<"send_sui">>,
   contacts |-> <<"list_contacts", "add_new_contact", "delete_contact">>,
   history |-> <<"get_transaction_history">>,
   nfts |-> <<"get_nfts">>,
   help |-> <<"get_help", "reset_conversation", "disconnect_wallet", "full_reset">>,
   conversation |-> <<>>]

----------------------------------------------------------------------------
(* Pipeline state                                                          *)

\* pc[r]: the graph node request r executes next ("start": run() was called,
\*   "end": the graph reached END, "raised": a node raised and ainvoke
\*   re-raises into run(), "done": run() returned)
\* state[r]: the AgentState of request r
\* obs[r]: what request r asked of its collaborators and what they answered,
\*   the tools it invoked and the graph nodes it executed, in order
\* envelope[r]: the Dict returned by run(), None until then
\* contacts: the rows of the contacts table the tools read
\* agent: the attributes of the WalletGraphAgent every request reads, its
\*   action registry and its domain-action map
VARIABLES pc, state, obs, envelope, contacts, agent, linking_sessions, wallet_links
vars == <<pc, state, obs, envelope, contacts, agent, linking_sessions, wallet_links>>

\* the linking_sessions table with no row
NoSessions == <<>>

WALLET_REQUIRED_DOMAINS == {"balance", "payments", "history", "nfts"}
WALLET_TOOLS == {"get_balance", "send_sui", "get_transaction_history", "get_nfts"}

\* confidences, in hundredths
CONF_KEYWORD_OVERRIDE == 80
CONF_KEYWORD_FALLBACK == 70
CONF_DEFAULT == 50

\* "[x]" stands for the cross-mark emoji that opens the code's error texts
NoWalletGateText(domain) ==
  <<"[x] No wallet linked. Use /start to connect your Sui wallet first to ",
    CASE domain = "balance" -> "check your balance"
      [] domain = "payments" -> "send SUI"
      [] domain = "history" -> "view transaction history"
      [] domain = "nfts" -> "view your NFTs"
      [] OTHER -> "do that",
    ".">>
NoWalletToolText == <<"[x] No wallet linked yet. Use /start to connect your wallet first.">>
ChatFallbackText ==
  <<"I'm here to help with your Sui wallet! Try asking about your balance, sending SUI, or managing contacts.">>
RunFailedText == <<"[x] Sorry, something went wrong. Try /help">>
DefaultResultText == <<"I'm not sure how to help with that.">>

\* a text is a tuple of string fragments; "" in Python is all-empty fragments
TextEmpty(t) == \A i \in DOMAIN t : t[i] = ""
\* bool(x) for an optional text
TruthyText(o) == o # None /\ ~TextEmpty(o[1])
\* bool(state.get("result"))
ResultTruthy(result) == TruthyText(result)

\* run(), lines 526-533
initial_state(user_input, user_id, wallet_address) ==
  [user_input |-> user_input, user_id |-> user_id, wallet_address |-> wallet_address,
   domain |-> None, domain_confidence |-> None, domain_reason |-> None,
   requires_wallet |-> None,
   tool_name |-> None, tool_args |-> Some(NoArgs),
   result |-> None, needs_signing |-> FALSE, tx_data |-> None, error |-> None]

no_obs ==
  [request |-> None, classifier |-> None, selector |-> None, signature |-> None, tool_result |-> None,
   chat |-> None, n_classify |-> 0, n_select |-> 0, n_chat |-> 0,
   invoked |-> <<>>, queries |-> <<>>, path |-> <<>>, escaped |-> FALSE]

\* state.get("domain", Domain.conversation)
DomainOf(st) == IF st.domain = None THEN "conversation" ELSE st.domain[1]

----------------------------------------------------------------------------
(* What the collaborators may answer                                       *)

\* the structured-output classifier: a DomainDecision, or an exception
ClassifierRaises ==
  [raised |-> TRUE, domain |-> "conversation", confidence |-> 0, reason |-> <<"">>,
   requires_wallet |-> FALSE]
Decision(domain, confidence, requires_wallet) ==
  [raised |-> FALSE, domain |-> domain, confidence |-> confidence, reason |-> <<"llm">>,
   requires_wallet |-> requires_wallet]
ClassifierOutcomes ==
  {ClassifierRaises} \cup {Decision(d, 90, f) : d \in Domain, f \in BOOLEAN}

\* the tool-calling model: an exception, or a message with tool_calls; a
\* call's args is a dict (Some(bag)) or not a mapping at all (None)
SelectorRaises == [raised |-> TRUE, tool_calls |-> <<>>]
ToolCalls(calls) == [raised |-> FALSE, tool_calls |-> calls]
Call(name, args) == [name |-> name, args |-> args]
\* names the model may put in a call: registered ones of every domain, the
\* empty name, and one that is not registered
SelectorNames ==
  {"get_balance", "send_sui", "list_contacts", "add_new_contact", "get_transaction_history",
   "get_help", "full_reset", "", "drain_wallet"}
OneFloat == [m |-> 1, e |-> 0]
SelectorArgs ==
  {Some(NoArgs),
   Some([NoArgs EXCEPT !.wallet_address = Some("0xEVIL")]),
   Some([NoArgs EXCEPT !.wallet_address = Some(""), !.user_id = Some("mallory")]),
   Some([NoArgs EXCEPT !.recipient = Some(<<"0", "x", "a", "b", "c">>),
                       !.amount = Some(OneFloat)]),
   None}
SelectorOutcomes ==
  {SelectorRaises, ToolCalls(<<>>),
   ToolCalls(<<Call("get_help", Some(NoArgs)), Call("list_contacts", Some(NoArgs))>>)}
    \cup {ToolCalls(<<Call(n, a)>>) : n \in SelectorNames, a \in SelectorArgs}

\* inspect.signature(func): returns the declared parameters, or raises
SignatureOutcomes == BOOLEAN

\* an invoked tool: returns a non-dict value (its str()), returns a dict, or
\* raises
ReturnsStr(text) ==
  [kind |-> "str", text |-> text, error |-> None, needs_signing |-> FALSE, message |-> None,
   payload |-> None]
\* a dict with its "error", "needs_signing" and "message" entries (texts,
\* None when the key is missing) and no other key
ReturnsDict(error, needs_signing, message) ==
  [kind |-> "dict", text |-> "", error |-> error, needs_signing |-> needs_signing,
   message |-> message, payload |-> None]
ToolRaises ==
  [kind |-> "raise", text |-> "boom", error |-> None, needs_signing |-> FALSE,
   message |-> None, payload |-> None]
ToolOutcomes ==
  {ReturnsStr("tool text"), ReturnsStr(""), ToolRaises,
   ReturnsDict(Some(<<"bad amount">>), FALSE, None),
   ReturnsDict(Some(<<"bad amount">>), TRUE, Some(<<"ready">>)),
   ReturnsDict(None, TRUE, Some(<<"ready">>)),
   ReturnsDict(None, TRUE, None),
   ReturnsDict(None, TRUE, Some(<<"">>)),
   ReturnsDict(None, FALSE, Some(<<"saved">>)),
   ReturnsDict(None, FALSE, None)}

\* str(n) for a natural number
RECURSIVE IntToChars(_)
IntToChars(n) ==
  IF n < 10 THEN <<DigitChars[n + 1]>>
  ELSE Append(IntToChars(n \div 10), DigitChars[(n % 10) + 1])

\* str(x) for a non-negative float in positional notation: "1.0", "0.5"
FloatToChars(x) ==
  LET d == IntToChars(x.m)
      padded == [i \in 1..(IF Len(d) > x.e THEN 0 ELSE x.e + 1 - Len(d)) |-> "0"] \o d
      k == Len(padded) - x.e
  IN SubSeq(padded, 1, k) \o <<".">> \o
       (IF x.e = 0 THEN <<"0">> ELSE SubSeq(padded, k + 1, Len(padded)))

\* s[:n] and s[-n:]
Head_(s, n) == SubSeq(s, 1, IF Len(s) < n THEN Len(s) ELSE n)
Tail_(s, n) == SubSeq(s, IF Len(s) < n THEN 1 ELSE Len(s) - n + 1, Len(s))

ContactRow(telegram_id, alias, address) ==
  [telegram_id |-> telegram_id, alias |-> alias, address |-> address]

\* postgres.resolve_contact: what fetchrow may return, the address of any
\* row of the caller whose alias matches case-insensitively, None if none
resolve_contact(rows, telegram_id, alias) ==
  LET found == {row \in rows : row.telegram_id = telegram_id /\ Lower(row.alias) = Lower(alias)}
  IN IF found = {} THEN {None} ELSE {Some(row.address) : row \in found}

\* a faulty variant of add_contact: a plain INSERT, with no ON CONFLICT
\* clause and no unique key to trip over
add_contact_plain_insert(rows, telegram_id, alias, address) ==
  rows \cup {ContactRow(telegram_id, alias, address)}

\* postgres.add_contact: INSERT ... ON CONFLICT (telegram_id, alias) DO UPDATE
\* SET address, one statement; the key compares aliases exactly
add_contact(rows, telegram_id, alias, address) ==
  {row \in rows : ~(row.telegram_id = telegram_id /\ row.alias = alias)}
    \cup {ContactRow(telegram_id, alias, address)}

\* postgres.remove_contact: DELETE ... WHERE telegram_id = $1 AND alias = $2
remove_contact(rows, telegram_id, alias) ==
  {row \in rows : ~(row.telegram_id = telegram_id /\ row.alias = alias)}

\* tools.send_sui, lines 76-83: the dict that asks for a signature
signing_request(recipient, amount, wallet_address) ==
  [kind |-> "dict", text |-> "", error |-> None, needs_signing |-> TRUE,
   message |-> Some(<<"Ready to send ">> \o FloatToChars(amount) \o <<" SUI to ">>
                      \o Head_(recipient, 10) \o <<"...">> \o Tail_(recipient, 6)),
   payload |-> Some([action |-> "send_sui", recipient |-> recipient, amount |-> amount,
                     sender |-> wallet_address])]

\* tools.send_sui, given what resolve_contact answers if it is asked
send_sui(recipient, amount, wallet_address, resolved) ==
  IF amount.m <= 0
  THEN ReturnsDict(Some(<<"Amount must be greater than zero.">>), FALSE, None)
  ELSE IF recipient = <<>>
  THEN ReturnsDict(Some(<<"Recipient is required.">>), FALSE, None)
  ELSE IF StartsAt(<<"0", "x">>, recipient, 1)
  THEN signing_request(recipient, amount, wallet_address)
  ELSE IF resolved # None /\ resolved[1] # <<>>
  THEN signing_request(resolved[1], amount, wallet_address)
  ELSE ReturnsDict(Some(<<"Contact \"">> \o recipient \o <<"\" not found. Add with: /contacts add ">>
                          \o recipient \o <<" 0x...">>), FALSE, None)

\* the parameters a tool cannot be called without (limit has a default)
RequiredParams(tool_name) == Range(TOOL_REGISTRY[tool_name]) \ {"limit"}

\* what invoking a registered tool with an argument bag may answer: a call
\* that lacks a required argument raises; send_sui answers as its code
\* does, or raises when the contact lookup fails; the other tools answer
\* as their chain or database service lets them (external)
tool_answers(tool_name, args, rows, external) ==
  IF \E p \in RequiredParams(tool_name) : args[p] = None THEN {ToolRaises}
  ELSE IF tool_name = "send_sui"
  THEN LET asks == args.amount[1].m > 0 /\ args.recipient[1] # <<>>
                     /\ ~StartsAt(<<"0", "x">>, args.recipient[1], 1)
       IN {send_sui(args.recipient[1], args.amount[1], args.wallet_address[1], resolved) :
             resolved \in resolve_contact(rows, args.user_id[1], args.recipient[1])}
            \cup (IF asks THEN {ToolRaises} ELSE {})
  ELSE external

Min(a, b) == IF a <= b THEN a ELSE b
Max(a, b) == IF a >= b THEN a ELSE b
\* tools.py line 142: the limit get_transaction_history takes when the call
\* names none
HISTORY_DEFAULT_LIMIT == 5

\* a faulty variant of get_transaction_history: the limit is capped at 20
\* and not raised to 1
get_transaction_history_capped_only(wallet_address, limit) ==
  [address |-> wallet_address, limit |-> Min(limit, 20)]

\* get_transaction_history, tools.py lines 150-151: the query it makes on
\* the chain service
get_transaction_history(wallet_address, limit) ==
  [address |-> wallet_address, limit |-> Min(Max(1, limit), 20)]

\* the queries an invocation makes on the chain service: ainvoke checks the
\* arguments against the declared parameters first, and a call that lacks a
\* required one raises before the tool's body runs
chain_queries(invoked) ==
  IF invoked # <<>> /\ invoked[1].name = "get_transaction_history"
       /\ \A p \in RequiredParams(invoked[1].name) : invoked[1].args[p] # None
  THEN <<get_transaction_history(invoked[1].args.wallet_address[1],
                                 IF invoked[1].args.limit = None THEN HISTORY_DEFAULT_LIMIT
                                 ELSE invoked[1].args.limit[1])>>
  ELSE <<>>

\* the chat model: a response with .content, or an exception
ChatRaises == [raised |-> TRUE, content |-> ""]
ChatSays(content) == [raised |-> FALSE, content |-> content]
ChatOutcomes == {ChatRaises, ChatSays("Hi! How can I help?"), ChatSays("")}

Users == {"u1"}
Wallets == {None, Some("0xW")}

----------------------------------------------------------------------------
(* The graph nodes as functions of the AgentState and the answer received  *)

Classified(st, domain, confidence, reason, requires_wallet) ==
  [st EXCEPT !.domain = Some(domain), !.domain_confidence = Some(confidence),
             !.domain_reason = Some(reason), !.requires_wallet = Some(requires_wallet)]

\* a faulty variant of classify_accepted: the override keeps the flag of the
\* primary decision
classify_accepted_keeps_flag(st, keyword_domain, decision) ==
  IF decision.domain = "conversation" /\ keyword_domain # None
  THEN Classified(st, keyword_domain[1], CONF_KEYWORD_OVERRIDE,
                  <<"Keyword match for ", keyword_domain[1]>>, decision.requires_wallet)
  ELSE Classified(st, decision.domain, decision.confidence, decision.reason,
                  decision.requires_wallet)

\* a faulty variant of classify_accepted: a returned decision is never
\* overridden by the keyword table
classify_accepted_no_override(st, keyword_domain, decision) ==
  Classified(st, decision.domain, decision.confidence, decision.reason,
             decision.requires_wallet)

\* a faulty variant of classify_accepted: a keyword match overrides every
\* decision, not only conversation
classify_accepted_keywords_first(st, keyword_domain, decision) ==
  IF keyword_domain # None
  THEN Classified(st, keyword_domain[1], CONF_KEYWORD_OVERRIDE,
                  <<"Keyword match for ", keyword_domain[1]>>,
                  keyword_domain[1] \in WALLET_REQUIRED_DOMAINS)
  ELSE Classified(st, decision.domain, decision.confidence, decision.reason,
                  decision.requires_wallet)

\* _classify_domain, the try body (lines 195-211): the decision was returned
classify_accepted(st, keyword_domain, decision) ==
  IF decision.domain = "conversation" /\ keyword_domain # None
  THEN Classified(st, keyword_domain[1], CONF_KEYWORD_OVERRIDE,
                  <<"Keyword match for ", keyword_domain[1]>>,
                  keyword_domain[1] \in WALLET_REQUIRED_DOMAINS)
  ELSE Classified(st, decision.domain, decision.confidence, decision.reason,
                  decision.requires_wallet)

\* a faulty variant of classify_failed: the default keeps DomainDecision's
\* default flag (requires_wallet = True)
classify_failed_default_flag(st, keyword_domain) ==
  IF keyword_domain # None
  THEN Classified(st, keyword_domain[1], CONF_KEYWORD_FALLBACK,
                  <<"Keyword fallback: ", keyword_domain[1]>>,
                  keyword_domain[1] \in WALLET_REQUIRED_DOMAINS)
  ELSE Classified(st, "conversation", CONF_DEFAULT,
                  <<"Classification error, defaulting to conversation">>, TRUE)

\* _classify_domain, the except body (lines 215-227): the classifier raised
classify_failed(st, keyword_domain) ==
  IF keyword_domain # None
  THEN Classified(st, keyword_domain[1], CONF_KEYWORD_FALLBACK,
                  <<"Keyword fallback: ", keyword_domain[1]>>,
                  keyword_domain[1] \in WALLET_REQUIRED_DOMAINS)
  ELSE Classified(st, "conversation", CONF_DEFAULT,
                  <<"Classification error, defaulting to conversation">>, FALSE)

classify_domain(st, out) ==
  LET keyword_domain == keyword_domain_of[st.user_input]
  IN IF out.raised THEN classify_failed(st, keyword_domain)
     ELSE classify_accepted(st, keyword_domain, out)

\* a faulty variant of check_wallet_required: the gate goes by the domain
\* alone and ignores the requires_wallet flag
check_wallet_required_by_domain(st) ==
  LET domain == DomainOf(st)
  IN IF ~Truthy(st.wallet_address) /\ domain \in WALLET_REQUIRED_DOMAINS
     THEN [st EXCEPT !.error = Some("no_wallet"), !.result = Some(NoWalletGateText(domain))]
     ELSE st

\* _check_wallet_required
check_wallet_required(st) ==
  LET domain == DomainOf(st)
      requires_wallet == st.requires_wallet # None /\ st.requires_wallet[1]
  IN IF requires_wallet /\ ~Truthy(st.wallet_address) /\ domain \in WALLET_REQUIRED_DOMAINS
     THEN [st EXCEPT !.error = Some("no_wallet"), !.result = Some(NoWalletGateText(domain))]
     ELSE st

\* a faulty variant of route_after_wallet_check: a request stopped by the
\* gate is sent back to classification
route_after_wallet_check_retries(st) ==
  IF st.error = Some("no_wallet") THEN "classify"
  ELSE IF DOMAIN_TOOLS[DomainOf(st)] # <<>> THEN "select_tool"
  ELSE "chat"

\* _route_after_wallet_check, as the node the conditional edge leads to
route_after_wallet_check(st) ==
  IF st.error = Some("no_wallet") THEN "end"
  ELSE IF DOMAIN_TOOLS[DomainOf(st)] # <<>> THEN "select_tool"
  ELSE "chat"

\* _select_tool, lines 287-301: the first tool call, if the model made one
selector_pick(st, out) ==
  IF ~out.raised /\ out.tool_calls # <<>>
  THEN [st EXCEPT !.tool_name = Some(out.tool_calls[1].name),
                  !.tool_args = out.tool_calls[1].args]
  ELSE st

\* a faulty variant of selector_fallback: the fallback's own prompt is
\* dropped for the generic text
selector_fallback_generic_text(st) ==
  IF Truthy(st.tool_name) THEN st
  ELSE LET domain == DomainOf(st)
           fb == fallback_of[domain][st.user_input]
       IN IF Truthy(fb.tool)
          THEN [st EXCEPT !.tool_name = fb.tool, !.tool_args = Some(fb.args)]
          ELSE [st EXCEPT !.tool_name = None, !.tool_args = Some(NoArgs),
                          !.result =
                            Some(<<"I understood you want help with ", domain,
                                   ", but I couldn't determine the specific action. Please try again.">>)]

\* a faulty variant of selector_fallback: the fallback is consulted for
\* every request and its tool, when it finds one, replaces the selector's
selector_fallback_always(st) ==
  LET domain == DomainOf(st)
      fb == fallback_of[domain][st.user_input]
  IN IF Truthy(fb.tool)
     THEN [st EXCEPT !.tool_name = fb.tool, !.tool_args = Some(fb.args)]
     ELSE IF Truthy(st.tool_name) THEN st
     ELSE [st EXCEPT !.tool_name = None, !.tool_args = Some(NoArgs),
                     !.result =
                       IF fb.msg # None /\ ~TextEmpty(fb.msg[1]) THEN fb.msg
                       ELSE Some(<<"I understood you want help with ", domain,
                                   ", but I couldn't determine the specific action. Please try again.">>)]

\* _select_tool, lines 303-313: the deterministic fallback
selector_fallback(st) ==
  IF Truthy(st.tool_name) THEN st
  ELSE LET domain == DomainOf(st)
           fb == fallback_of[domain][st.user_input]
       IN IF Truthy(fb.tool)
          THEN [st EXCEPT !.tool_name = fb.tool, !.tool_args = Some(fb.args)]
          ELSE [st EXCEPT !.tool_name = None, !.tool_args = Some(NoArgs),
                          !.result =
                            IF fb.msg # None /\ ~TextEmpty(fb.msg[1]) THEN fb.msg
                            ELSE Some(<<"I understood you want help with ", domain,
                                        ", but I couldn't determine the specific action. Please try again.">>)]

select_tool(st, out) ==
  IF DOMAIN_TOOLS[DomainOf(st)] = <<>>
  THEN [st EXCEPT !.tool_name = None, !.tool_args = Some(NoArgs)]
  ELSE selector_fallback(selector_pick(st, out))

\* _run_tool, lines 404-422: the context values written over the declared
\* parameters. The loop raises on its first write when tool_args is not a
\* dict, and is skipped when inspect.signature raises; both are logged and
\* leave tool_args as it was.
inject_context(tool_name, tool_args, user_id, wallet_address, sig_ok) ==
  IF ~sig_ok \/ tool_args = None THEN tool_args
  ELSE LET with_user ==
             IF Declares(tool_name, "user_id")
             THEN [tool_args[1] EXCEPT !.user_id = Some(user_id)]
             ELSE tool_args[1]
       IN Some(IF Declares(tool_name, "wallet_address") /\ wallet_address # None
               THEN [with_user EXCEPT !.wallet_address = wallet_address]
               ELSE with_user)

\* a faulty variant of wallet_missing: only the four wallet tools are
\* checked, not the bags that carry a wallet_address key
wallet_missing_listed_only(tool_name, args) ==
  tool_name \in WALLET_TOOLS /\ ~Truthy(args.wallet_address)

\* _run_tool, lines 427-428: the call is stopped for want of a wallet
wallet_missing(tool_name, args) ==
  /\ args.wallet_address # None \/ tool_name \in WALLET_TOOLS
  /\ ~Truthy(args.wallet_address)

\* a faulty variant of normalize_result: the signing branch sets the flag
\* and forgets the payload
normalize_result_no_tx_data(st, tool_name, res) ==
  CASE res.kind = "raise" ->
         [st EXCEPT !.result = Some(<<"[x] Error executing ", tool_name, ": ", res.text>>),
                    !.error = Some(res.text)]
    [] res.kind = "str" -> [st EXCEPT !.result = Some(<<res.text>>)]
    [] OTHER ->
         IF TruthyText(res.error)
         THEN [st EXCEPT !.result = Some(<<"[x] ">> \o res.error[1])]
         ELSE IF res.needs_signing
         THEN [st EXCEPT !.result = IF res.message = None THEN Some(<<"Transaction ready">>)
                                    ELSE res.message,
                         !.needs_signing = TRUE]
         ELSE [st EXCEPT !.result = IF res.message = None THEN Some(<<"str(result)">>)
                                    ELSE res.message]

\* a faulty variant of normalize_result: the text for a tool that raised
\* carries the exception alone and does not name the tool
normalize_result_unnamed_failure(st, tool_name, res) ==
  CASE res.kind = "raise" ->
         [st EXCEPT !.result = Some(<<"[x] Error executing ", "tool", ": ", res.text>>),
                    !.error = Some(res.text)]
    [] res.kind = "str" -> [st EXCEPT !.result = Some(<<res.text>>)]
    [] OTHER ->
         IF TruthyText(res.error)
         THEN [st EXCEPT !.result = Some(<<"[x] ">> \o res.error[1])]
         ELSE IF res.needs_signing
         THEN [st EXCEPT !.result = IF res.message = None THEN Some(<<"Transaction ready">>)
                                    ELSE res.message,
                         !.needs_signing = TRUE,
                         !.tx_data = Some(res)]
         ELSE [st EXCEPT !.result = IF res.message = None THEN Some(<<"str(result)">>)
                                    ELSE res.message]

\* a faulty variant of normalize_result: the needs_signing flag of a dict is
\* tested before its error field
normalize_result_signing_first(st, tool_name, res) ==
  CASE res.kind = "raise" ->
         [st EXCEPT !.result = Some(<<"[x] Error executing ", tool_name, ": ", res.text>>),
                    !.error = Some(res.text)]
    [] res.kind = "str" -> [st EXCEPT !.result = Some(<<res.text>>)]
    [] OTHER ->
         IF res.needs_signing
         THEN [st EXCEPT !.result = IF res.message = None THEN Some(<<"Transaction ready">>)
                                    ELSE res.message,
                         !.needs_signing = TRUE,
                         !.tx_data = Some(res)]
         ELSE IF TruthyText(res.error)
         THEN [st EXCEPT !.result = Some(<<"[x] ">> \o res.error[1])]
         ELSE [st EXCEPT !.result = IF res.message = None THEN Some(<<"str(result)">>)
                                    ELSE res.message]

\* _run_tool, lines 445-463: the tool's answer written into the state
normalize_result(st, tool_name, res) ==
  CASE res.kind = "raise" ->
         [st EXCEPT !.result = Some(<<"[x] Error executing ", tool_name, ": ", res.text>>),
                    !.error = Some(res.text)]
    [] res.kind = "str" -> [st EXCEPT !.result = Some(<<res.text>>)]
    [] OTHER ->
         IF TruthyText(res.error)
         THEN [st EXCEPT !.result = Some(<<"[x] ">> \o res.error[1])]
         ELSE IF res.needs_signing
         THEN [st EXCEPT !.result = IF res.message = None THEN Some(<<"Transaction ready">>)
                                    ELSE res.message,
                         !.needs_signing = TRUE,
                         !.tx_data = Some(res)]
         ELSE [st EXCEPT !.result = IF res.message = None THEN Some(<<"str(result)">>)
                                    ELSE res.message]

Ran(st, invoked, raised) == [state |-> st, invoked |-> invoked, raised |-> raised]

\* _run_tool, lines 394-402: a registered tool was selected, so the code goes
\* on to inspect its signature
reaches_signature(st) == Truthy(st.tool_name) /\ st.tool_name[1] \in ToolNames

\* a faulty variant of run_tool: the wallet check is made before the name
\* is looked up in the registry
run_tool_wallet_check_first(st, sig_ok, res) ==
  IF ~Truthy(st.tool_name)
  THEN Ran(IF ResultTruthy(st.result) THEN st
           ELSE [st EXCEPT !.result = Some(<<"No action could be determined.">>)],
           <<>>, FALSE)
  ELSE LET tool_name == st.tool_name[1]
           known == tool_name \in ToolNames
           tool_args == IF known
                        THEN inject_context(tool_name, st.tool_args, st.user_id,
                                            st.wallet_address, sig_ok)
                        ELSE st.tool_args
           st1 == [st EXCEPT !.tool_args = tool_args]
       IN IF tool_args = None
          THEN Ran(st1, <<>>, TRUE)
          ELSE IF wallet_missing(tool_name, tool_args[1])
          THEN Ran([st1 EXCEPT !.result = Some(NoWalletToolText),
                               !.error = Some("no_wallet")], <<>>, FALSE)
          ELSE IF ~known
          THEN Ran([st EXCEPT !.result = Some(<<"[x] Unknown action: ", tool_name>>)], <<>>, FALSE)
          ELSE Ran(normalize_result(st1, tool_name, res),
                   <<[name |-> tool_name, args |-> tool_args[1]]>>, FALSE)

\* _run_tool: the state it returns, the invocation it made (name and final
\* arguments) if any, and whether it raised instead of returning
run_tool(st, sig_ok, res) ==
  IF ~Truthy(st.tool_name)
  THEN Ran(IF ResultTruthy(st.result) THEN st
           ELSE [st EXCEPT !.result = Some(<<"No action could be determined.">>)],
           <<>>, FALSE)
  ELSE LET tool_name == st.tool_name[1] IN
       IF tool_name \notin ToolNames
       THEN Ran([st EXCEPT !.result = Some(<<"[x] Unknown action: ", tool_name>>)], <<>>, FALSE)
       ELSE LET tool_args == inject_context(tool_name, st.tool_args, st.user_id,
                                            st.wallet_address, sig_ok)
                st1 == [st EXCEPT !.tool_args = tool_args]
            IN IF tool_args = None
               THEN Ran(st1, <<>>, TRUE)   \* "wallet_address" in None: TypeError
               ELSE IF wallet_missing(tool_name, tool_args[1])
               THEN Ran([st1 EXCEPT !.result = Some(NoWalletToolText),
                                    !.error = Some("no_wallet")], <<>>, FALSE)
               ELSE Ran(normalize_result(st1, tool_name, res),
                        <<[name |-> tool_name, args |-> tool_args[1]]>>, FALSE)

\* a faulty variant of generate_chat: a failure of the chat model records
\* the error and leaves the result unset
generate_chat_no_fallback(st, out) ==
  IF out.raised
  THEN [st EXCEPT !.error = Some("chat failed")]
  ELSE [st EXCEPT !.result = Some(<<out.content>>)]

\* _generate_chat
generate_chat(st, out) ==
  IF out.raised
  THEN [st EXCEPT !.result = Some(ChatFallbackText), !.error = Some("chat failed")]
  ELSE [st EXCEPT !.result = Some(<<out.content>>)]

Envelope(text, action, needs_signing, tx_data, domain) ==
  [text |-> text, action |-> action, needs_signing |-> needs_signing,
   tx_data |-> tx_data, domain |-> domain]

\* run(), lines 538-550: the envelope built from the final state
run_result(final_state) ==
  LET domain == DomainOf(final_state)
  IN Envelope(IF final_state.result = None THEN DefaultResultText ELSE final_state.result[1],
              IF Truthy(final_state.tool_name) THEN final_state.tool_name
              ELSE IF domain # "conversation" THEN Some(domain) ELSE None,
              final_state.needs_signing, final_state.tx_data, Some(domain))

\* a faulty variant of run_except: the handler lets the exception go, and
\* run() returns nothing
run_reraises == None

\* run(), lines 552-559: the envelope returned when ainvoke raised
run_except ==
  Some([text |-> RunFailedText, action |-> None, needs_signing |-> FALSE, tx_data |-> None])

\* _build_graph: the position of each node along the graph's edges
\* (select_tool and chat are the two branches after the gate)
GraphOrder ==
  [run |-> 0, classify |-> 1, check_wallet |-> 2, select_tool |-> 3, chat |-> 3,
   run_tool |-> 4, return |-> 5]

----------------------------------------------------------------------------
(* Actions: one per call of run() and per graph node                       *)

\* the requests of a behaviour (one under Spec)
Requests == DOMAIN pc

\* a faulty variant of write_state: the invocations of the graph share one
\* state object, so a node's result lands in every request's state
write_state_shared(states, r, new) == [q \in DOMAIN states |-> new]

\* run(), lines 526-536: every call builds its own initial_state and hands it
\* to ainvoke, so a node's returned state replaces that request's state only
write_state(states, r, new) == [states EXCEPT ![r] = new]

InitFor(requests, texts, users, wallets) ==
  /\ pc = [r \in requests |-> "start"]
  /\ state \in [requests -> {initial_state(t, u, w) : t \in texts, u \in users, w \in wallets}]
  /\ obs = [r \in requests |->
              [no_obs EXCEPT !.request =
                 Some([user_input |-> state[r].user_input, user_id |-> state[r].user_id,
                       wallet_address |-> state[r].wallet_address])]]
  /\ agent = [tool_registry |-> TOOL_REGISTRY, domain_tools |-> DOMAIN_TOOLS]
  /\ linking_sessions = NoSessions
  /\ wallet_links = {}
  /\ envelope = [r \in requests |-> None]

\* run() builds initial_state and awaits self.app.ainvoke: START -> classify
Run(r) ==
  /\ pc[r] = "start"
  /\ pc' = [pc EXCEPT ![r] = "classify"]
  /\ obs' = [obs EXCEPT ![r].path = Append(@, "run")]
  /\ UNCHANGED <<state, envelope, contacts, agent, linking_sessions, wallet_links>>

ClassifyDomain(r, outcomes) ==
  /\ pc[r] = "classify"
  /\ \E out \in outcomes :
       /\ state' = write_state(state, r, classify_domain(state[r], out))
       /\ obs' = [obs EXCEPT ![r].classifier = Some(out), ![r].n_classify = @ + 1,
                             ![r].path = Append(@, "classify")]
  /\ pc' = [pc EXCEPT ![r] = "check_wallet"]
  /\ UNCHANGED <<envelope, contacts, agent, linking_sessions, wallet_links>>

CheckWalletRequired(r) ==
  /\ pc[r] = "check_wallet"
  /\ state' = write_state(state, r, check_wallet_required(state[r]))
  /\ pc' = [pc EXCEPT ![r] = route_after_wallet_check(check_wallet_required(state[r]))]
  /\ obs' = [obs EXCEPT ![r].path = Append(@, "check_wallet")]
  /\ UNCHANGED <<envelope, contacts, agent, linking_sessions, wallet_links>>

SelectTool(r, outcomes) ==
  /\ pc[r] = "select_tool"
  /\ IF DOMAIN_TOOLS[DomainOf(state[r])] = <<>>
     THEN /\ state' = write_state(state, r, select_tool(state[r], SelectorRaises))
          /\ obs' = [obs EXCEPT ![r].path = Append(@, "select_tool")]
     ELSE \E out \in outcomes :
            /\ state' = write_state(state, r, select_tool(state[r], out))
            /\ obs' = [obs EXCEPT ![r].selector = Some(out), ![r].n_select = @ + 1,
                                  ![r].path = Append(@, "select_tool")]
  /\ pc' = [pc EXCEPT ![r] = "run_tool"]
  /\ UNCHANGED <<envelope, contacts, agent, linking_sessions, wallet_links>>

RunTool(r, signatures, outcomes) ==
  /\ pc[r] = "run_tool"
  /\ \E sig_ok \in signatures, res \in outcomes :
       LET ran == run_tool(state[r], sig_ok, res)
       IN /\ state' = write_state(state, r, ran.state)
          /\ obs' = [obs EXCEPT ![r].invoked = @ \o ran.invoked,
                                ![r].queries = @ \o chain_queries(ran.invoked),
                                ![r].tool_result = IF ran.invoked = <<>> THEN @ ELSE Some(res),
                                ![r].signature = IF reaches_signature(state[r])
                                                 THEN Some(sig_ok) ELSE @,
                                ![r].path = Append(@, "run_tool")]
          /\ pc' = [pc EXCEPT ![r] = IF ran.raised THEN "raised" ELSE "end"]
  /\ UNCHANGED <<envelope, contacts, agent, linking_sessions, wallet_links>>

\* _run_tool with the registry of tools.py: as RunTool, the answer being
\* one the invoked tool can give for the arguments it is called with (the
\* call _run_tool makes does not depend on the answer)
RunRegisteredTool(r, signatures, external) ==
  /\ pc[r] = "run_tool"
  /\ \E sig_ok \in signatures :
       LET invoked == run_tool(state[r], sig_ok, ToolRaises).invoked
           answers == IF invoked = <<>> THEN {ToolRaises}
                      ELSE tool_answers(invoked[1].name, invoked[1].args, contacts, external)
       IN \E res \in answers :
            LET ran == run_tool(state[r], sig_ok, res)
            IN /\ state' = write_state(state, r, ran.state)
               /\ obs' = [obs EXCEPT ![r].invoked = @ \o ran.invoked,
                                     ![r].queries = @ \o chain_queries(ran.invoked),
                                     ![r].tool_result = IF ran.invoked = <<>> THEN @ ELSE Some(res),
                                     ![r].signature = IF reaches_signature(state[r])
                                                      THEN Some(sig_ok) ELSE @,
                                     ![r].path = Append(@, "run_tool")]
               /\ pc' = [pc EXCEPT ![r] = IF ran.raised THEN "raised" ELSE "end"]
  /\ UNCHANGED <<envelope, contacts, agent, linking_sessions, wallet_links>>

GenerateChat(r, outcomes) ==
  /\ pc[r] = "chat"
  /\ \E out \in outcomes :
       /\ state' = write_state(state, r, generate_chat(state[r], out))
       /\ obs' = [obs EXCEPT ![r].chat = Some(out), ![r].n_chat = @ + 1,
                             ![r].path = Append(@, "chat")]
  /\ pc' = [pc EXCEPT ![r] = "end"]
  /\ UNCHANGED <<envelope, contacts, agent, linking_sessions, wallet_links>>

\* ainvoke returned the final state, or re-raised what a node raised
RunReturn(r) ==
  /\ pc[r] \in {"end", "raised"}
  /\ envelope' = [envelope EXCEPT ![r] = IF pc[r] = "end" THEN Some(run_result(state[r]))
                                          ELSE run_except]
  /\ obs' = [obs EXCEPT ![r].escaped = envelope'[r] = None,
                        ![r].path = Append(@, "return")]
  /\ pc' = [pc EXCEPT ![r] = "done"]
  /\ UNCHANGED <<state, contacts, agent, linking_sessions, wallet_links>>

\* one request, every answer of the collaborators
SingleRequest == {"r1"}
RequestTexts == 1..11
Init == InitFor(SingleRequest, RequestTexts, Users, Wallets) /\ contacts = {}
Next ==
  \E r \in SingleRequest :
    \/ Run(r)
    \/ ClassifyDomain(r, ClassifierOutcomes)
    \/ CheckWalletRequired(r)
    \/ SelectTool(r, SelectorOutcomes)
    \/ RunTool(r, SignatureOutcomes, ToolOutcomes)
    \/ GenerateChat(r, ChatOutcomes)
    \/ RunReturn(r)
Spec == Init /\ [][Next]_vars

\* the steps a request takes without awaiting a collaborator: run() starting
\* the graph, the gate, _run_tool when it returns before invoking a tool,
\* and run() returning
AgentStep(r) ==
  \/ Run(r)
  \/ CheckWalletRequired(r)
  \/ RunTool(r, SignatureOutcomes, ToolOutcomes) /\ obs'[r].invoked = obs[r].invoked
  \/ RunReturn(r)

\* the event loop runs every step that awaits nothing; a step that awaits
\* the classifier, the selector, a tool or the chat model (asyncio.to_thread
\* or ainvoke, without a timeout) is taken when the collaborator answers,
\* which it may never do
SpecStall == Init /\ [][Next]_vars /\ \A r \in SingleRequest : WF_vars(AgentStep(r))

\* two requests served by the same agent, their nodes interleaved in every
\* order, over a few texts, two callers and a few answers per collaborator
PairRequests == {"r1", "r2"}
PairTexts == {1, 3, 6}
PairUsers == {"u1", "u2"}
PairClassifierOutcomes ==
  {ClassifierRaises, Decision("conversation", 90, FALSE), Decision("payments", 90, TRUE)}
PairSelectorOutcomes == {SelectorRaises, ToolCalls(<<Call("get_balance", Some(NoArgs))>>)}
PairToolOutcomes == {ReturnsStr("tool text"), ToolRaises}
PairChatOutcomes == {ChatSays("Hi! How can I help?")}
InitPair == InitFor(PairRequests, PairTexts, PairUsers, Wallets) /\ contacts = {}
NextPair ==
  \E r \in PairRequests :
    \/ Run(r)
    \/ ClassifyDomain(r, PairClassifierOutcomes)
    \/ CheckWalletRequired(r)
    \/ SelectTool(r, PairSelectorOutcomes)
    \/ RunTool(r, {TRUE}, PairToolOutcomes)
    \/ GenerateChat(r, PairChatOutcomes)
    \/ RunReturn(r)
SpecPair == InitPair /\ [][NextPair]_vars

\* one request served with the tools of tools.py, over payment texts, two
\* callers of whom each has a contact "alice" (stored as "alice" and as
\* "Alice"), and the calls a selector may make for a payment
AddrA == <<"0", "x">> \o [i \in 1..40 |-> "a"]
AddrB == <<"0", "x">> \o [i \in 1..40 |-> "b"]
N_alice == <<"a", "l", "i", "c", "e">>
N_Alice == <<"A", "l", "i", "c", "e">>
ToolsContacts == {ContactRow("u1", N_alice, AddrA), ContactRow("u2", N_Alice, AddrB)}
ToolsTexts == {1, 2, 3, 5}
ToolsUsers == {"u1", "u2"}
ToolsClassifierOutcomes ==
  {ClassifierRaises, Decision("payments", 90, TRUE), Decision("conversation", 90, FALSE)}
ZeroFloat == [m |-> 0, e |-> 0]
ToolsSelectorOutcomes ==
  {SelectorRaises, ToolCalls(<<>>),
   ToolCalls(<<Call("send_sui", Some([NoArgs EXCEPT !.recipient = Some(N_alice),
                                                   !.amount = Some(OneFloat)]))>>),
   ToolCalls(<<Call("send_sui", Some([NoArgs EXCEPT !.recipient = Some(AddrB),
                                                   !.amount = Some(OneFloat)]))>>),
   ToolCalls(<<Call("send_sui", Some([NoArgs EXCEPT !.recipient = Some(N_alice),
                                                   !.amount = Some(ZeroFloat)]))>>),
   ToolCalls(<<Call("send_sui", Some([NoArgs EXCEPT !.recipient = Some(<<"b", "o", "b">>),
                                                   !.amount = Some(OneFloat),
                                                   !.wallet_address = Some("0xEVIL"),
                                                   !.user_id = Some("mallory")]))>>)}
ToolsExternalOutcomes == {ReturnsStr("tool text"), ToolRaises}
InitTools == InitFor(SingleRequest, ToolsTexts, ToolsUsers, Wallets) /\ contacts = ToolsContacts
NextTools ==
  \E r \in SingleRequest :
    \/ Run(r)
    \/ ClassifyDomain(r, ToolsClassifierOutcomes)
    \/ CheckWalletRequired(r)
    \/ SelectTool(r, ToolsSelectorOutcomes)
    \/ RunRegisteredTool(r, SignatureOutcomes, ToolsExternalOutcomes)
    \/ GenerateChat(r, ChatOutcomes)
    \/ RunReturn(r)
SpecTools == InitTools /\ [][NextTools]_vars

\* one request about the transaction history, over texts that carry the
\* number 5, 0, 25, 0.5 or (the greeting) none, and a selector that fails,
\* makes no call, or calls get_transaction_history without a limit or with
\* one below, inside or above the range
HistoryTexts == {3, 9, 12, 13, 14}
HistoryLimits == {None, Some(-3), Some(0), Some(1), Some(7), Some(20), Some(21), Some(100)}
HistoryClassifierOutcomes ==
  {ClassifierRaises, Decision("history", 90, TRUE), Decision("conversation", 90, FALSE)}
HistorySelectorOutcomes ==
  {SelectorRaises, ToolCalls(<<>>)}
    \cup {ToolCalls(<<Call("get_transaction_history", Some([NoArgs EXCEPT !.limit = l]))>>) :
            l \in HistoryLimits}
InitHistory == InitFor(SingleRequest, HistoryTexts, Users, Wallets) /\ contacts = {}
NextHistory ==
  \E r \in SingleRequest :
    \/ Run(r)
    \/ ClassifyDomain(r, HistoryClassifierOutcomes)
    \/ CheckWalletRequired(r)
    \/ SelectTool(r, HistorySelectorOutcomes)
    \/ RunRegisteredTool(r, SignatureOutcomes, ToolsExternalOutcomes)
    \/ GenerateChat(r, ChatOutcomes)
    \/ RunReturn(r)
SpecHistory == InitHistory /\ [][NextHistory]_vars

\* three requests of caller u1 that each make one call on the contacts
\* table, add_contact or remove_contact, interleaved in every order. Here
\* state[r] is the call request r makes, pc[r] its position in the call and
\* obs[r] what the call returned and its place in the order the statements
\* ran. u2 has contacts of the same aliases.
ContactRequests == {"r1", "r2", "r3"}
ContactAliases == {N_alice, N_Alice}
ContactAddresses == {AddrA, AddrB}
AddCall(telegram_id, alias, address) ==
  [op |-> "add", telegram_id |-> telegram_id, alias |-> alias, address |-> address]
RemoveCall(telegram_id, alias) ==
  [op |-> "remove", telegram_id |-> telegram_id, alias |-> alias, address |-> <<>>]
ContactCalls ==
  {AddCall("u1", a, x) : a \in ContactAliases, x \in ContactAddresses}
    \cup {RemoveCall("u1", a) : a \in ContactAliases}
StoredContacts ==
  {ContactRow("u1", N_alice, AddrC), ContactRow("u2", N_alice, AddrA),
   ContactRow("u2", N_Alice, AddrB)}
\* conn.execute: the statement runs, or the driver raises
StatementOutcomes == BOOLEAN

InitContacts ==
  /\ pc = [r \in ContactRequests |-> "start"]
  /\ state \in [ContactRequests -> ContactCalls]
  /\ obs = [r \in ContactRequests |-> [returned |-> None, at |-> 0]]
  /\ envelope = [r \in ContactRequests |-> None]
  /\ contacts = StoredContacts
  /\ agent = [tool_registry |-> TOOL_REGISTRY, domain_tools |-> DOMAIN_TOOLS]
  /\ linking_sessions = NoSessions
  /\ wallet_links = {}

\* await get_pool() and pool.acquire(): the call has a connection
AcquireConnection(r) ==
  /\ pc[r] = "start"
  /\ pc' = [pc EXCEPT ![r] = "execute"]
  /\ UNCHANGED <<state, obs, envelope, contacts, agent, linking_sessions, wallet_links>>

\* the place of the next statement in the order the statements run
NextPlace == Cardinality({q \in Requests : pc[q] = "done"}) + 1

\* add_contact's conn.execute and return: True, or False when it raised
AddContact(r, outcomes) ==
  /\ pc[r] = "execute"
  /\ state[r].op = "add"
  /\ \E ok \in outcomes :
       /\ contacts' = IF ok THEN add_contact(contacts, state[r].telegram_id, state[r].alias,
                                             state[r].address)
                      ELSE contacts
       /\ obs' = [obs EXCEPT ![r] = [returned |-> Some(ok), at |-> NextPlace]]
  /\ pc' = [pc EXCEPT ![r] = "done"]
  /\ UNCHANGED <<state, envelope, agent, linking_sessions, wallet_links>>

\* remove_contact's conn.execute and return: whether a row was deleted,
\* False when it raised
RemoveContact(r, outcomes) ==
  /\ pc[r] = "execute"
  /\ state[r].op = "remove"
  /\ \E ok \in outcomes :
       /\ contacts' = IF ok THEN remove_contact(contacts, state[r].telegram_id, state[r].alias)
                      ELSE contacts
       /\ obs' = [obs EXCEPT ![r] = [returned |-> Some(ok /\ contacts' # contacts),
                                     at |-> NextPlace]]
  /\ pc' = [pc EXCEPT ![r] = "done"]
  /\ UNCHANGED <<state, envelope, agent, linking_sessions, wallet_links>>

NextContacts ==
  \E r \in ContactRequests :
    \/ AcquireConnection(r)
    \/ AddContact(r, StatementOutcomes)
    \/ RemoveContact(r, StatementOutcomes)
SpecContacts == InitContacts /\ [][NextContacts]_vars

\* keyword_classify applied to every text of one to MaxWords words, taken
\* from a vocabulary with a keyword of each domain (one capitalised, one
\* inside a longer word) and a word that is no keyword. Here state[r] is
\* the text and obs[r] what keyword_classify returned for it.
MaxWords == 3
W_Balance == <<"B", "a", "l", "a", "n", "c", "e">>
W_send == <<"s", "e", "n", "d">>
W_repay == <<"r", "e", "p", "a", "y">>
W_contact == <<"c", "o", "n", "t", "a", "c", "t">>
W_history == <<"h", "i", "s", "t", "o", "r", "y">>
W_nft == <<"n", "f", "t">>
W_help == <<"h", "e", "l", "p">>
W_hi == <<"h", "i">>
KeywordWords == {W_Balance, W_send, W_repay, W_contact, W_history, W_nft, W_help, W_hi}

\* " ".join(words)
RECURSIVE JoinWords(_)
JoinWords(words) ==
  IF Len(words) = 1 THEN words[1] ELSE words[1] \o <<" ">> \o JoinWords(Tail(words))
\* the texts of one to n words of a vocabulary
Phrases(words, n) == {JoinWords(p) : p \in UNION {[1..k -> words] : k \in 1..n}}

InitKeywords ==
  /\ pc = [r \in SingleRequest |-> "start"]
  /\ state \in [SingleRequest -> [user_input : Phrases(KeywordWords, MaxWords)]]
  /\ obs = [r \in SingleRequest |-> [keyword_domain |-> None]]
  /\ envelope = [r \in SingleRequest |-> None]
  /\ contacts = {}
  /\ agent = [tool_registry |-> TOOL_REGISTRY, domain_tools |-> DOMAIN_TOOLS]
  /\ linking_sessions = NoSessions
  /\ wallet_links = {}

\* _classify_domain, line 191: keyword_domain = keyword_classify(user_input)
KeywordClassify(r) ==
  /\ pc[r] = "start"
  /\ obs' = [obs EXCEPT ![r].keyword_domain = Some(keyword_classify(state[r].user_input))]
  /\ pc' = [pc EXCEPT ![r] = "done"]
  /\ UNCHANGED <<state, envelope, contacts, agent, linking_sessions, wallet_links>>

NextKeywords == \E r \in SingleRequest : KeywordClassify(r)
SpecKeywords == InitKeywords /\ [][NextKeywords]_vars

\* _fallback_tool_selection applied, for every domain, to every text of one
\* to MaxFallbackWords words taken from a vocabulary of requests of that
\* domain. For payments: an amount, "to", two names of which one ends in a
\* digit, and an address. For contacts: a removal and two creation verbs,
\* one capitalised, a name, an address and "address", which is no verb. For
\* history and nfts: numbers that are zero, in range, above 20 and below 1.
\* For help: the reset words. Here state[r] is the domain and the text, with
\* the words it is made of, and obs[r] the selection returned for them.
MaxFallbackWords == 4
W_1 == <<"1">>
W_bob == <<"b", "o", "b">>
W_alice2 == <<"a", "l", "i", "c", "e", "2">>
FallbackWords == {W_send, W_1, W_to, W_bob, W_alice2, AddrC}
W_Save == <<"S", "a", "v", "e">>
W_address == <<"a", "d", "d", "r", "e", "s", "s">>
ContactsWords == {W_delete, W_add, W_Save, W_bob, AddrC, W_address}
W_last == <<"l", "a", "s", "t">>
W_0 == <<"0">>
W_5 == <<"5">>
W_25 == <<"2", "5">>
W_half == <<"0", ".", "5">>
LimitWords == {W_last, W_0, W_5, W_25, W_half}
HelpWords == {W_help, W_reset, W_clear, W_hi}
OtherWords == {W_hi, W_Balance}
FallbackVocabulary ==
  [d \in Domain |->
     CASE d = "payments" -> FallbackWords
       [] d = "contacts" -> ContactsWords
       [] d \in {"history", "nfts"} -> LimitWords
       [] d = "help" -> HelpWords
       [] OTHER -> OtherWords]
FallbackDomains == Domain
WordTuples(words, n) == UNION {[1..k -> words] : k \in 1..n}

InitFallback ==
  /\ pc = [r \in SingleRequest |-> "start"]
  /\ state \in [SingleRequest ->
                  UNION {{[domain |-> d, words |-> p, user_input |-> JoinWords(p)] :
                            p \in WordTuples(FallbackVocabulary[d], MaxFallbackWords)} :
                           d \in FallbackDomains}]
  /\ obs = [r \in SingleRequest |-> [selection |-> None]]
  /\ envelope = [r \in SingleRequest |-> None]
  /\ contacts = {}
  /\ agent = [tool_registry |-> TOOL_REGISTRY, domain_tools |-> DOMAIN_TOOLS]
  /\ linking_sessions = NoSessions
  /\ wallet_links = {}

\* _select_tool, line 305: self._fallback_tool_selection(domain, user_input)
FallbackSelect(r) ==
  /\ pc[r] = "start"
  /\ obs' = [obs EXCEPT ![r].selection =
                Some(fallback_tool_selection(state[r].domain, state[r].user_input))]
  /\ pc' = [pc EXCEPT ![r] = "done"]
  /\ UNCHANGED <<state, envelope, contacts, agent, linking_sessions, wallet_links>>

NextFallback == \E r \in SingleRequest : FallbackSelect(r)
SpecFallback == InitFallback /\ [][NextFallback]_vars

\* The wallet-linking session of one token, created for caller u1 and
\* waiting for a wallet, and three calls on it, each handle_set_wallet or
\* handle_complete, their database statements interleaved in every order.
\* Here state[r] is the call request r makes, pc[r] its position in it and
\* obs[r] the session it read, what it returned, the wallet link it wrote
\* and the requests that had returned when it started. linking_sessions is
\* the table by token and wallet_links the set of (telegram_id, address)
\* rows.
LinkingRequests == {"r1", "r2", "r3"}
LinkingToken == "tok"
LinkingWallets == {"0xA", "0xB"}
SessionRow(telegram_id, wallet_address, wallet_type, status, expired) ==
  [telegram_id |-> telegram_id, wallet_address |-> wallet_address,
   wallet_type |-> wallet_type, status |-> status, expired |-> expired]

\* postgres.create_linking_session: the row it inserts
create_linking_session(sessions, token, telegram_id) ==
  [t \in DOMAIN sessions \cup {token} |->
     IF t = token THEN SessionRow(telegram_id, None, None, "pending_wallet", FALSE)
     ELSE sessions[t]]

\* postgres.get_linking_session: SELECT ... WHERE token = $1 AND
\* expires_at > NOW()
get_linking_session(sessions, token) ==
  IF token \in DOMAIN sessions /\ ~sessions[token].expired
  THEN Some(sessions[token]) ELSE None

\* postgres.set_linking_wallet through update_linking_session: UPDATE
\* linking_sessions SET wallet_address, wallet_type, status WHERE token
set_linking_wallet(sessions, token, wallet_address, wallet_type) ==
  [t \in DOMAIN sessions |->
     IF t = token
     THEN [sessions[t] EXCEPT !.wallet_address = Some(wallet_address),
                              !.wallet_type = Some(wallet_type),
                              !.status = "pending_telegram_confirm"]
     ELSE sessions[t]]

\* complete_linking_session: update_linking_session(token,
\* status='completed')
mark_completed(sessions, token) ==
  [t \in DOMAIN sessions |->
     IF t = token THEN [sessions[t] EXCEPT !.status = "completed"] ELSE sessions[t]]

\* postgres.link_wallet: INSERT ... ON CONFLICT (telegram_id, address) DO
\* UPDATE SET label
link_wallet(links, telegram_id, address) ==
  links \cup {[telegram_id |-> telegram_id, address |-> address]}

SetWalletCall(token, wallet_address) ==
  [op |-> "set_wallet", token |-> token, wallet_address |-> Some(wallet_address)]
CompleteCall(token) == [op |-> "complete", token |-> token, wallet_address |-> None]
LinkingCalls ==
  {SetWalletCall(LinkingToken, w) : w \in LinkingWallets} \cup {CompleteCall(LinkingToken)}
no_linking_obs == [session |-> None, returned |-> None, linked |-> {}, after |-> {}]
\* what a handler returns: the completed session, None, or the status of
\* handle_set_wallet's response
ReturnedSession(session) == [kind |-> "session", session |-> session]
ReturnedNone == [kind |-> "none", session |-> None]
ReturnedStatus(code) == [kind |-> code, session |-> None]

InitLinking ==
  /\ pc = [r \in LinkingRequests |-> "start"]
  /\ state \in [LinkingRequests -> LinkingCalls]
  /\ obs = [r \in LinkingRequests |-> no_linking_obs]
  /\ envelope = [r \in LinkingRequests |-> None]
  /\ contacts = {}
  /\ agent = [tool_registry |-> TOOL_REGISTRY, domain_tools |-> DOMAIN_TOOLS]
  /\ linking_sessions = create_linking_session(NoSessions, LinkingToken, "u1")
  /\ wallet_links = {}

\* handle_set_wallet, bot.py: get_linking_session, and 404 when it finds
\* none
SetWalletGetSession(r) ==
  /\ pc[r] = "start"
  /\ state[r].op = "set_wallet"
  /\ LET session == get_linking_session(linking_sessions, state[r].token)
     IN /\ obs' = [obs EXCEPT ![r].session = session,
                              ![r].after = {q \in Requests : pc[q] = "done"},
                              ![r].returned = IF session = None
                                              THEN Some(ReturnedStatus("not_found")) ELSE @]
        /\ pc' = [pc EXCEPT ![r] = IF session = None THEN "done" ELSE "update"]
  /\ UNCHANGED <<state, envelope, contacts, agent, linking_sessions, wallet_links>>

\* handle_set_wallet: set_linking_wallet's UPDATE, which returns False when
\* the statement raised, and the response
SetLinkingWallet(r, outcomes) ==
  /\ pc[r] = "update"
  /\ state[r].op = "set_wallet"
  /\ \E ok \in outcomes :
       /\ linking_sessions' =
            IF ok THEN set_linking_wallet(linking_sessions, state[r].token,
                                          state[r].wallet_address[1], "zklogin")
            ELSE linking_sessions
       /\ obs' = [obs EXCEPT ![r].returned =
                     Some(ReturnedStatus(IF ok THEN "ok" ELSE "update_failed"))]
  /\ pc' = [pc EXCEPT ![r] = "done"]
  /\ UNCHANGED <<state, envelope, contacts, agent, wallet_links>>

\* complete_linking_session: get_linking_session and the status test, which
\* returns None for no session or a completed one
CompleteGetSession(r) ==
  /\ pc[r] = "start"
  /\ state[r].op = "complete"
  /\ LET session == get_linking_session(linking_sessions, state[r].token)
         refused == session = None \/ session[1].status = "completed"
     IN /\ obs' = [obs EXCEPT ![r].session = session,
                              ![r].after = {q \in Requests : pc[q] = "done"},
                              ![r].returned = IF refused THEN Some(ReturnedNone) ELSE @]
        /\ pc' = [pc EXCEPT ![r] = IF refused THEN "done" ELSE "update"]
  /\ UNCHANGED <<state, envelope, contacts, agent, linking_sessions, wallet_links>>

\* complete_linking_session: update_linking_session(token,
\* status='completed'), whose result is not looked at
CompleteUpdateStatus(r, outcomes) ==
  /\ pc[r] = "update"
  /\ state[r].op = "complete"
  /\ \E ok \in outcomes :
       linking_sessions' = IF ok THEN mark_completed(linking_sessions, state[r].token)
                           ELSE linking_sessions
  /\ pc' = [pc EXCEPT ![r] = "link"]
  /\ UNCHANGED <<state, obs, envelope, contacts, agent, wallet_links>>

\* complete_linking_session: link_wallet for the wallet of the session that
\* was read, and the return of that session marked completed
CompleteLinkWallet(r) ==
  /\ pc[r] = "link"
  /\ LET session == obs[r].session[1]
         links == IF Truthy(session.wallet_address)
                  THEN link_wallet(wallet_links, session.telegram_id, session.wallet_address[1])
                  ELSE wallet_links
     IN /\ wallet_links' = links
        /\ obs' = [obs EXCEPT ![r].returned =
                      Some(ReturnedSession([session EXCEPT !.status = "completed"])),
                              ![r].linked =
                      IF Truthy(session.wallet_address)
                      THEN {[telegram_id |-> session.telegram_id,
                             address |-> session.wallet_address[1]]}
                      ELSE {}]
  /\ pc' = [pc EXCEPT ![r] = "done"]
  /\ UNCHANGED <<state, envelope, contacts, agent, linking_sessions>>

\* the session's expires_at is reached
SessionExpires ==
  /\ ~linking_sessions[LinkingToken].expired
  /\ linking_sessions' = [linking_sessions EXCEPT ![LinkingToken].expired = TRUE]
  /\ UNCHANGED <<pc, state, obs, envelope, contacts, agent, wallet_links>>

NextLinking ==
  \/ \E r \in LinkingRequests :
       \/ SetWalletGetSession(r)
       \/ SetLinkingWallet(r, StatementOutcomes)
       \/ CompleteGetSession(r)
       \/ CompleteUpdateStatus(r, StatementOutcomes)
       \/ CompleteLinkWallet(r)
  \/ SessionExpires
SpecLinking == InitLinking /\ [][NextLinking]_vars

----------------------------------------------------------------------------
(* Properties                                                              *)

\* C1: every invocation of a tool that declares a wallet_address parameter
\* passes the wallet address the caller supplied with the request, never
\* the value the model put in the argument bag.
C1_InvokedWalletIsCallers ==
  \A r \in Requests : \A i \in DOMAIN obs[r].invoked :
    Declares(obs[r].invoked[i].name, "wallet_address")
      => obs[r].invoked[i].args.wallet_address = state[r].wallet_address

\* C2: a request without a wallet whose effective domain is balance,
\* payments, history or nfts returns a text saying that no wallet is linked,
\* and invokes no tool.
C2_NoWalletNoAction ==
  \A r \in Requests :
    (/\ pc[r] = "done"
     /\ state[r].domain # None
     /\ state[r].domain[1] \in WALLET_REQUIRED_DOMAINS
     /\ ~Truthy(state[r].wallet_address))
      => /\ envelope[r] # None
         /\ envelope[r][1].text \in {NoWalletToolText} \cup
                                    {NoWalletGateText(d) : d \in WALLET_REQUIRED_DOMAINS}
         /\ obs[r].invoked = <<>>

\* C3: after tool selection the selected tool name is null or one of the
\* tools of the classified domain, and only tools of that domain are invoked.
C3_SelectedToolInDomain ==
  \A r \in Requests :
    (\E i \in DOMAIN obs[r].path : obs[r].path[i] = "select_tool")
      => /\ \/ state[r].tool_name = None
            \/ state[r].tool_name[1] \in Range(DOMAIN_TOOLS[DomainOf(state[r])])
         /\ \A i \in DOMAIN obs[r].invoked :
              obs[r].invoked[i].name \in Range(DOMAIN_TOOLS[DomainOf(state[r])])

\* C4: the text of every returned envelope is non-empty.
C4_TextNonEmpty ==
  \A r \in Requests : envelope[r] # None => ~TextEmpty(envelope[r][1].text)

\* C5: once a request is classified, its requires_wallet flag is true exactly
\* when its domain is balance, payments, history or nfts.
C5_RequiresWalletByDomain ==
  \A r \in Requests :
    state[r].domain # None
      => state[r].requires_wallet = Some(state[r].domain[1] \in WALLET_REQUIRED_DOMAINS)

\* C6: in every returned envelope, needs_signing = true implies that tx_data
\* is present.
C6_SigningHasTxData ==
  \A r \in Requests :
    (envelope[r] # None /\ envelope[r][1].needs_signing) => envelope[r][1].tx_data # None

\* a tool answered with a signing payload and the envelope carries it
C6_Witness ==
  \E r \in Requests :
    /\ envelope[r] # None
    /\ envelope[r][1].needs_signing
    /\ obs[r].tool_result # None
    /\ envelope[r][1].tx_data = obs[r].tool_result

\* C7: when the classifier returns conversation and the keyword table
\* matches a domain D for the text, the request's domain is D, its
\* confidence 0.8, and requires_wallet is D's membership in the
\* wallet-required domains, whatever flag the decision carried.
C7_KeywordOverride ==
  \A r \in Requests :
    LET keyword_domain == keyword_classify(Texts[state[r].user_input])
    IN (/\ obs[r].classifier # None
        /\ ~obs[r].classifier[1].raised
        /\ obs[r].classifier[1].domain = "conversation"
        /\ keyword_domain # None)
         => /\ state[r].domain = keyword_domain
            /\ state[r].domain_confidence = Some(CONF_KEYWORD_OVERRIDE)
            /\ state[r].requires_wallet = Some(keyword_domain[1] \in WALLET_REQUIRED_DOMAINS)

\* the classifier said conversation without a wallet requirement on "what's
\* my balance?", and the request ended classified as balance
C7_Witness ==
  \E r \in Requests :
    /\ pc[r] = "done"
    /\ Texts[state[r].user_input] = T_balance
    /\ obs[r].classifier = Some(Decision("conversation", 90, FALSE))
    /\ state[r].domain = Some("balance")
    /\ state[r].requires_wallet = Some(TRUE)

\* C8: when the classifier raises, the domain is the keyword-matched one with
\* confidence 0.7, or conversation with confidence 0.5 and requires_wallet
\* false when no keyword matches; the request goes on to the wallet gate and
\* the classifier is called once.
C8_ClassifierFailure ==
  \A r \in Requests :
    LET keyword_domain == keyword_classify(Texts[state[r].user_input])
    IN (obs[r].classifier # None /\ obs[r].classifier[1].raised)
         => /\ IF keyword_domain # None
               THEN /\ state[r].domain = keyword_domain
                    /\ state[r].domain_confidence = Some(CONF_KEYWORD_FALLBACK)
               ELSE /\ state[r].domain = Some("conversation")
                    /\ state[r].domain_confidence = Some(CONF_DEFAULT)
                    /\ state[r].requires_wallet = Some(FALSE)
            /\ obs[r].n_classify = 1
            /\ \/ pc[r] = "check_wallet"
               \/ Len(obs[r].path) >= 3 /\ obs[r].path[3] = "check_wallet"

\* the classifier raised on a text without keywords, and the request went
\* through the gate to the chat node and returned
C8_Witness ==
  \E r \in Requests :
    /\ pc[r] = "done"
    /\ obs[r].classifier = Some(ClassifierRaises)
    /\ keyword_classify(Texts[state[r].user_input]) = None
    /\ obs[r].path = <<"run", "classify", "check_wallet", "chat", "return">>

\* C9: two requests with the same text and the same wallet presence, both
\* classified through the keyword path (the classifier raised or returned
\* conversation), get the same domain, whoever the callers are and whatever
\* the other request did before.
C9_KeywordDeterminism ==
  \A a, b \in Requests :
    LET KeywordPath(r) ==
          /\ obs[r].classifier # None
          /\ obs[r].classifier[1].raised \/ obs[r].classifier[1].domain = "conversation"
    IN (/\ KeywordPath(a)
        /\ KeywordPath(b)
        /\ state[a].user_input = state[b].user_input
        /\ Truthy(state[a].wallet_address) <=> Truthy(state[b].wallet_address))
         => state[a].domain = state[b].domain

\* two callers sent the same keyword-bearing text; one request had returned
\* after its classifier raised, the other was just classified after its
\* classifier said conversation
C9_Witness ==
  \E a, b \in Requests :
    /\ state[a].user_id # state[b].user_id
    /\ state[a].user_input = state[b].user_input
    /\ Truthy(state[a].wallet_address) <=> Truthy(state[b].wallet_address)
    /\ pc[a] = "done" /\ obs[a].classifier = Some(ClassifierRaises)
    /\ pc[b] = "check_wallet" /\ obs[b].classifier = Some(Decision("conversation", 90, FALSE))
    /\ state[b].domain = Some("balance")

\* C10: no failure leaves run(): a finished request has an envelope with
\* text, action, needs_signing and tx_data, a request whose graph ended or
\* raised can return, and the nodes a request executed follow the graph's
\* order, none executed twice.
C10_NoFailureEscapes ==
  \A r \in Requests :
    /\ ~obs[r].escaped
    /\ pc[r] = "done"
         => /\ envelope[r] # None
            /\ {"text", "action", "needs_signing", "tx_data"} \subseteq DOMAIN envelope[r][1]
    /\ pc[r] \in {"end", "raised"} => ENABLED RunReturn(r)
    /\ \A i, j \in DOMAIN obs[r].path :
         i < j => GraphOrder[obs[r].path[i]] < GraphOrder[obs[r].path[j]]

\* the classifier, the selector, the signature inspection and the tool all
\* raised in one request, and it returned its envelope
C10_Witness ==
  \E r \in Requests :
    /\ pc[r] = "done"
    /\ obs[r].classifier = Some(ClassifierRaises)
    /\ obs[r].selector = Some(SelectorRaises)
    /\ obs[r].signature = Some(FALSE)
    /\ obs[r].tool_result = Some(ToolRaises)
    /\ envelope[r] # None

\* C11: the nodes a request has executed are the beginning of classify,
\* gate and then one of: return; select, execute, return; chat, return.
\* The classifier, the selector and the chat generator are each called at
\* most once, at most one tool is invoked, and never a tool and the chat
\* generator in the same request.
C11_StagesInOrderOnce ==
  \A r \in Requests :
    LET path == obs[r].path
        ways == {<<"run", "classify", "check_wallet", "return">>,
                 <<"run", "classify", "check_wallet", "select_tool", "run_tool", "return">>,
                 <<"run", "classify", "check_wallet", "chat", "return">>}
    IN /\ \E w \in ways : Len(path) <= Len(w) /\ path = SubSeq(w, 1, Len(path))
       /\ obs[r].n_classify <= 1
       /\ obs[r].n_select <= 1
       /\ obs[r].n_chat <= 1
       /\ Len(obs[r].invoked) <= 1
       /\ ~(obs[r].invoked # <<>> /\ obs[r].n_chat > 0)

\* a request went through classify, gate, select and execute, invoked one
\* tool after one call of the classifier and one of the selector, and returned
C11_Witness ==
  \E r \in Requests :
    /\ pc[r] = "done"
    /\ obs[r].path = <<"run", "classify", "check_wallet", "select_tool", "run_tool", "return">>
    /\ obs[r].n_classify = 1 /\ obs[r].n_select = 1 /\ obs[r].n_chat = 0
    /\ Len(obs[r].invoked) = 1

\* C12: every request eventually returns an envelope, also when a call it
\* awaits never returns.
C12_EveryRequestReturns == <>(\A r \in Requests : pc[r] = "done")

\* C13: for "send 1 SUI to alice" from a caller with a linked wallet W whose
\* contact alice resolves to A, classified as payments, the envelope has
\* action send_sui, needs_signing true, the tool's message as text, and
\* tx_data with recipient A, amount 1.0 and sender W, both when the selector
\* returns the send_sui call and when the fallback selects it.
C13_SendToContact ==
  \A r \in Requests :
    (/\ pc[r] = "done"
     /\ Texts[state[r].user_input] = T_send
     /\ Truthy(state[r].wallet_address)
     /\ state[r].domain = Some("payments")
     /\ obs[r].selector \in
          {Some(SelectorRaises), Some(ToolCalls(<<>>)),
           Some(ToolCalls(<<Call("send_sui", Some([NoArgs EXCEPT !.recipient = Some(N_alice),
                                                                !.amount = Some(OneFloat)]))>>))}
     /\ obs[r].tool_result # Some(ToolRaises))
      => \E A \in {AddrA, AddrB} :
           /\ resolve_contact(contacts, state[r].user_id, N_alice) = {Some(A)}
           /\ envelope[r] # None
           /\ envelope[r][1].action = Some("send_sui")
           /\ envelope[r][1].needs_signing
           /\ envelope[r][1].tx_data # None
           /\ envelope[r][1].text = envelope[r][1].tx_data[1].message[1]
           /\ envelope[r][1].tx_data[1].payload =
                Some([action |-> "send_sui", recipient |-> A, amount |-> OneFloat,
                      sender |-> state[r].wallet_address[1]])

\* C14: for "add contact bob <address>" classified as contacts, the
\* fallback selects add_new_contact with name "bob" and the address of the
\* text, in any wallet state.
C14_AddContactTakesName ==
  \A r \in Requests :
    (/\ Texts[state[r].user_input] = T_add
     /\ state[r].domain = Some("contacts")
     /\ obs[r].selector \in {Some(SelectorRaises), Some(ToolCalls(<<>>))})
      => /\ state[r].tool_name = Some("add_new_contact")
         /\ state[r].tool_args # None
         /\ state[r].tool_args[1].name = Some(<<"b", "o", "b">>)
         /\ state[r].tool_args[1].address = Some(AddrC)

\* C15: a payments request with a linked wallet whose selector raises or
\* returns no tool call, and whose text has no positive number, returns the
\* prompt for an amount, invokes no tool and asks for no signature.
C15_AmountPrompt ==
  \A r \in Requests :
    LET amount == first_number(Texts[state[r].user_input])
    IN (/\ pc[r] = "done"
        /\ state[r].domain = Some("payments")
        /\ Truthy(state[r].wallet_address)
        /\ obs[r].selector \in {Some(SelectorRaises), Some(ToolCalls(<<>>))}
        /\ amount = None \/ amount[1].m = 0)
         => /\ envelope[r] # None
            /\ envelope[r][1].text =
                 <<"Please provide an amount to send, e.g., 'send 1 SUI to alice'.">>
            /\ obs[r].invoked = <<>>
            /\ ~envelope[r][1].needs_signing

\* "send sui to alice" from a caller with a wallet, classified as payments,
\* the selector having raised, returned with the prompt
C15_Witness ==
  \E r \in Requests :
    /\ pc[r] = "done"
    /\ Texts[state[r].user_input] = T_send_no_amount
    /\ state[r].domain = Some("payments")
    /\ Truthy(state[r].wallet_address)
    /\ obs[r].selector = Some(SelectorRaises)
    /\ envelope[r][1].text = <<"Please provide an amount to send, e.g., 'send 1 SUI to alice'.">>

\* C16 (as stated): once the gate has run, the chat node is entered exactly
\* when the gate did not block and the domain has no tools; then the
\* selector and the tools are never invoked, the envelope has no action, no
\* tx_data and needs_signing false, and its text is the reply the chat
\* generator returned.
C16_ChatReplyIsText ==
  \A r \in Requests :
    LET entered == pc[r] = "chat" \/ "chat" \in Range(obs[r].path)
        blocked == /\ state[r].requires_wallet = Some(TRUE)
                   /\ ~Truthy(state[r].wallet_address)
                   /\ DomainOf(state[r]) \in WALLET_REQUIRED_DOMAINS
    IN "check_wallet" \in Range(obs[r].path)
         => /\ entered <=> (~blocked /\ DOMAIN_TOOLS[DomainOf(state[r])] = <<>>)
            /\ entered => obs[r].n_select = 0 /\ obs[r].invoked = <<>>
            /\ (entered /\ pc[r] = "done")
                 => /\ envelope[r] # None
                    /\ envelope[r][1].action = None
                    /\ envelope[r][1].tx_data = None
                    /\ ~envelope[r][1].needs_signing
                    /\ ~obs[r].chat[1].raised
                    /\ envelope[r][1].text = <<obs[r].chat[1].content>>

\* C16 (amended): as above, the text being the chat generator's reply when
\* it returned one, and the fixed fallback text when it raised.
C16_ChatRouting ==
  \A r \in Requests :
    LET entered == pc[r] = "chat" \/ "chat" \in Range(obs[r].path)
        blocked == /\ state[r].requires_wallet = Some(TRUE)
                   /\ ~Truthy(state[r].wallet_address)
                   /\ DomainOf(state[r]) \in WALLET_REQUIRED_DOMAINS
    IN "check_wallet" \in Range(obs[r].path)
         => /\ entered <=> (~blocked /\ DOMAIN_TOOLS[DomainOf(state[r])] = <<>>)
            /\ entered => obs[r].n_select = 0 /\ obs[r].invoked = <<>>
            /\ (entered /\ pc[r] = "done")
                 => /\ envelope[r] # None
                    /\ envelope[r][1].action = None
                    /\ envelope[r][1].tx_data = None
                    /\ ~envelope[r][1].needs_signing
                    /\ envelope[r][1].text =
                         IF obs[r].chat[1].raised THEN ChatFallbackText
                         ELSE <<obs[r].chat[1].content>>

\* "hello" without a wallet, decided conversation, answered by the chat
\* generator, returned with the reply as text
C16_Witness ==
  \E r \in Requests :
    /\ pc[r] = "done"
    /\ Texts[state[r].user_input] = T_hello
    /\ state[r].wallet_address = None
    /\ obs[r].classifier = Some(Decision("conversation", 90, FALSE))
    /\ obs[r].chat = Some(ChatSays("Hi! How can I help?"))
    /\ envelope[r][1].text = <<"Hi! How can I help?">>
    /\ envelope[r][1].action = None

\* C17: a wallet tool, or any tool called with a bag that has a
\* wallet_address key, is never invoked with a missing, null or empty
\* wallet_address; a request whose bag after injection lacks it for such a
\* call ends with the no-wallet text, error no_wallet, and no invocation.
C17_NoInvocationWithoutWallet ==
  \A r \in Requests :
    LET needs(name, args) ==
          name \in {"get_balance", "send_sui", "get_transaction_history", "get_nfts"}
            \/ args.wallet_address # None
    IN /\ \A i \in DOMAIN obs[r].invoked :
            needs(obs[r].invoked[i].name, obs[r].invoked[i].args)
              => /\ obs[r].invoked[i].args.wallet_address # None
                 /\ obs[r].invoked[i].args.wallet_address[1] # ""
       /\ (/\ "run_tool" \in Range(obs[r].path)
           /\ Truthy(state[r].tool_name)
           /\ state[r].tool_name[1] \in DOMAIN TOOL_REGISTRY
           /\ state[r].tool_args # None
           /\ needs(state[r].tool_name[1], state[r].tool_args[1])
           /\ ~Truthy(state[r].tool_args[1].wallet_address))
            => /\ state[r].result = Some(NoWalletToolText)
               /\ state[r].error = Some("no_wallet")
               /\ obs[r].invoked = <<>>
               /\ pc[r] = "done" => envelope[r][1].text = NoWalletToolText

\* a tool that is no wallet tool was selected with an empty wallet_address
\* in its bag by a caller without a wallet, and the request returned the
\* no-wallet text without invoking it
C17_Witness ==
  \E r \in Requests :
    /\ pc[r] = "done"
    /\ state[r].wallet_address = None
    /\ state[r].tool_name = Some("get_help")
    /\ state[r].tool_args # None
    /\ state[r].tool_args[1].wallet_address = Some("")
    /\ obs[r].invoked = <<>>
    /\ envelope[r][1].text = NoWalletToolText

\* C18: a request with requires_wallet true, a wallet-required domain and
\* no wallet ends at the gate with the "No wallet linked" text of its domain
\* and needs_signing false, and never calls the selector, a tool or the chat
\* generator; for any other request the gate leaves domain, confidence,
\* requires_wallet, result and error as they were and the request goes on.
C18_WalletGate ==
  /\ [](\A r \in Requests :
          (/\ "check_wallet" \in Range(obs[r].path)
           /\ state[r].requires_wallet = Some(TRUE)
           /\ DomainOf(state[r]) \in WALLET_REQUIRED_DOMAINS
           /\ ~Truthy(state[r].wallet_address))
            => /\ pc[r] \in {"end", "done"}
               /\ state[r].result = Some(NoWalletGateText(DomainOf(state[r])))
               /\ state[r].result[1][1] =
                    "[x] No wallet linked. Use /start to connect your Sui wallet first to "
               /\ ~state[r].needs_signing
               /\ obs[r].n_select = 0 /\ obs[r].n_chat = 0 /\ obs[r].invoked = <<>>
               /\ pc[r] = "done"
                    => /\ envelope[r][1].text = state[r].result[1]
                       /\ ~envelope[r][1].needs_signing)
  /\ [][\A r \in Requests :
          (/\ pc[r] = "check_wallet"
           /\ pc'[r] # "check_wallet"
           /\ ~(/\ state[r].requires_wallet = Some(TRUE)
                /\ DomainOf(state[r]) \in WALLET_REQUIRED_DOMAINS
                /\ ~Truthy(state[r].wallet_address)))
            => /\ pc'[r] \in {"select_tool", "chat"}
               /\ state'[r].domain = state[r].domain
               /\ state'[r].domain_confidence = state[r].domain_confidence
               /\ state'[r].requires_wallet = state[r].requires_wallet
               /\ state'[r].result = state[r].result
               /\ state'[r].error = state[r].error]_vars

\* "what's my balance?" without a wallet, decided balance with
\* requires_wallet true, returned from the gate
C18_Witness ==
  \E r \in Requests :
    /\ pc[r] = "done"
    /\ Texts[state[r].user_input] = T_balance
    /\ state[r].wallet_address = None
    /\ obs[r].classifier = Some(Decision("balance", 90, TRUE))
    /\ obs[r].path = <<"run", "classify", "check_wallet", "return">>
    /\ envelope[r][1].text = NoWalletGateText("balance")

\* C19: when the invoked tool raises, the execute stage catches it: the
\* request goes on to return, its text is "Error executing <tool>: <exception>"
\* with the name of the tool that was invoked, needs_signing is false and
\* tx_data is null, in the state and in the envelope run() returns.
C19_ToolFailureCaught ==
  \A r \in Requests :
    (obs[r].tool_result # None /\ obs[r].tool_result[1].kind = "raise")
      => /\ pc[r] \in {"end", "done"}
         /\ ~obs[r].escaped
         /\ Len(obs[r].invoked) = 1
         /\ state[r].result =
              Some(<<"[x] Error executing ", obs[r].invoked[1].name, ": ",
                     obs[r].tool_result[1].text>>)
         /\ ~state[r].needs_signing
         /\ state[r].tx_data = None
         /\ pc[r] = "done"
              => /\ envelope[r] # None
                 /\ envelope[r][1].text = state[r].result[1]
                 /\ ~envelope[r][1].needs_signing
                 /\ envelope[r][1].tx_data = None

\* get_balance was invoked for a caller with a wallet, raised, and run()
\* returned
C19_Witness ==
  \E r \in Requests :
    /\ pc[r] = "done"
    /\ obs[r].tool_result = Some(ToolRaises)
    /\ Len(obs[r].invoked) = 1
    /\ obs[r].invoked[1].name = "get_balance"
    /\ envelope[r][1].text = <<"[x] Error executing ", "get_balance", ": ", "boom">>

\* C20: a dict answer with a non-empty error field gives the text
\* "<cross> <error>", needs_signing false and tx_data null, whatever the
\* needs_signing field of the same dict says.
C20_ErrorFieldFirst ==
  \A r \in Requests :
    (/\ obs[r].tool_result # None
     /\ obs[r].tool_result[1].kind = "dict"
     /\ TruthyText(obs[r].tool_result[1].error))
      => /\ pc[r] \in {"end", "done"}
         /\ state[r].result = Some(<<"[x] ">> \o obs[r].tool_result[1].error[1])
         /\ ~state[r].needs_signing
         /\ state[r].tx_data = None
         /\ pc[r] = "done"
              => /\ envelope[r][1].text = <<"[x] ">> \o obs[r].tool_result[1].error[1]
                 /\ ~envelope[r][1].needs_signing
                 /\ envelope[r][1].tx_data = None

\* a tool answered with both an error and needs_signing true, and run()
\* returned
C20_Witness ==
  \E r \in Requests :
    /\ pc[r] = "done"
    /\ obs[r].tool_result = Some(ReturnsDict(Some(<<"bad amount">>), TRUE, Some(<<"ready">>)))
    /\ envelope[r][1].text = <<"[x] ", "bad amount">>
    /\ ~envelope[r][1].needs_signing

\* C21: a tool that returns a non-dict value gives the envelope that value's
\* string form as text, needs_signing false and tx_data null; a tool of the
\* help or contacts domain selected for a caller without a wallet is invoked,
\* and its text returned; tx_data is non-null only when needs_signing is true.
C21_PlainTextPassesThrough ==
  \A r \in Requests :
    /\ (obs[r].tool_result # None /\ obs[r].tool_result[1].kind = "str")
         => /\ state[r].result = Some(<<obs[r].tool_result[1].text>>)
            /\ ~state[r].needs_signing
            /\ state[r].tx_data = None
            /\ pc[r] = "done"
                 => /\ envelope[r][1].text = <<obs[r].tool_result[1].text>>
                    /\ ~envelope[r][1].needs_signing
                    /\ envelope[r][1].tx_data = None
    /\ (/\ "run_tool" \in Range(obs[r].path)
        /\ ~Truthy(state[r].wallet_address)
        /\ DomainOf(state[r]) \in {"help", "contacts"}
        /\ Truthy(state[r].tool_name)
        /\ state[r].tool_name[1] \in Range(DOMAIN_TOOLS[DomainOf(state[r])]))
         => /\ Len(obs[r].invoked) = 1
            /\ obs[r].invoked[1].name = state[r].tool_name[1]
            /\ obs[r].tool_result[1].kind = "str"
                 => state[r].result = Some(<<obs[r].tool_result[1].text>>)
    /\ (pc[r] = "done" /\ envelope[r] # None /\ envelope[r][1].tx_data # None)
         => envelope[r][1].needs_signing

\* C22: when run() has returned, a tool that was invoked is the envelope's
\* action, and an envelope action that is a registered tool was invoked.
C22_ActionIsInvokedTool ==
  \A r \in Requests :
    (pc[r] = "done" /\ envelope[r] # None)
      => /\ obs[r].invoked # <<>>
              => envelope[r][1].action = Some(obs[r].invoked[1].name)
         /\ (envelope[r][1].action # None /\ envelope[r][1].action[1] \in ToolNames)
              => /\ obs[r].invoked # <<>>
                 /\ obs[r].invoked[1].name = envelope[r][1].action[1]

\* the answers request r received, with a placeholder where it asked nothing
AnswerOr(answer, placeholder) == IF answer = None THEN placeholder ELSE answer[1]

\* the envelope run() returns for request r's own input when it is served
\* alone and its collaborators answer as they answered r
alone(r) ==
  LET req == obs[r].request[1]
      st0 == initial_state(req.user_input, req.user_id, req.wallet_address)
      st1 == classify_domain(st0, AnswerOr(obs[r].classifier, ClassifierRaises))
      st2 == check_wallet_required(st1)
      nxt == route_after_wallet_check(st2)
      ran == run_tool(select_tool(st2, AnswerOr(obs[r].selector, SelectorRaises)),
                      AnswerOr(obs[r].signature, TRUE),
                      AnswerOr(obs[r].tool_result, ToolRaises))
  IN IF nxt = "end" THEN Some(run_result(st2))
     ELSE IF nxt = "chat"
     THEN Some(run_result(generate_chat(st2, AnswerOr(obs[r].chat, ChatRaises))))
     ELSE IF ran.raised THEN run_except
     ELSE Some(run_result(ran.state))

\* C23: however the nodes of two requests interleave, the envelope each
\* run() returns is the one the request gets when served alone with the same
\* answers from the classifier, the selector, the tool and the chat model,
\* and the agent's action registry and domain-action map stay as built.
C23_RequestsIndependent ==
  /\ agent = [tool_registry |-> TOOL_REGISTRY, domain_tools |-> DOMAIN_TOOLS]
  /\ linking_sessions = NoSessions
  /\ wallet_links = {}
  /\ \A r \in Requests : pc[r] = "done" => envelope[r] = alone(r)

\* r1 has returned from an invoked tool while r2, another caller's request
\* with another text, is between its nodes
C23_Witness ==
  /\ pc["r1"] = "done"
  /\ obs["r1"].invoked # <<>>
  /\ pc["r2"] = "run_tool"
  /\ state["r1"].user_id # state["r2"].user_id
  /\ state["r1"].user_input # state["r2"].user_input
  /\ envelope["r1"] = alone("r1")

\* the add_contact calls for (telegram_id, alias) that wrote their row
WrittenAdds(telegram_id, alias) ==
  {q \in Requests : /\ state[q].op = "add"
                    /\ state[q].telegram_id = telegram_id
                    /\ state[q].alias = alias
                    /\ obs[q].returned = Some(TRUE)}
\* the one of them whose statement ran last
LastAdd(adds) == CHOOSE q \in adds : \A p \in adds : obs[p].at <= obs[q].at

\* C24: however the add_contact and remove_contact calls of one caller's
\* requests interleave, the table never holds two addresses for one
\* (caller, alias); once every call has returned, an alias that is present
\* and was added maps to the address of the add_contact that ran last for
\* it (one that was not added keeps its stored address); and the rows of
\* other callers are the stored ones.
C24_ContactsLastWriteWins ==
  /\ \A row1 \in contacts, row2 \in contacts :
       (row1.telegram_id = row2.telegram_id /\ row1.alias = row2.alias)
         => row1.address = row2.address
  /\ (\A r \in Requests : pc[r] = "done")
       => \A row \in contacts :
            row.telegram_id = "u1"
              => IF WrittenAdds("u1", row.alias) = {} THEN row \in StoredContacts
                 ELSE row.address = state[LastAdd(WrittenAdds("u1", row.alias))].address
  /\ {row \in contacts : row.telegram_id # "u1"}
       = {row \in StoredContacts : row.telegram_id # "u1"}

\* alice was stored, then removed, then added with one address and added
\* again with another: the table holds the second
C24_Witness ==
  /\ \A r \in Requests : pc[r] = "done"
  /\ state["r1"] = AddCall("u1", N_alice, AddrA)
  /\ state["r2"] = AddCall("u1", N_alice, AddrB)
  /\ state["r3"] = RemoveCall("u1", N_alice)
  /\ obs["r3"] = [returned |-> Some(TRUE), at |-> 1]
  /\ obs["r2"] = [returned |-> Some(TRUE), at |-> 2]
  /\ obs["r1"] = [returned |-> Some(TRUE), at |-> 3]
  /\ ContactRow("u1", N_alice, AddrA) \in contacts
  /\ ContactRow("u1", N_alice, AddrB) \notin contacts

\* C25: every invocation of a tool that declares a user_id parameter passes
\* the caller id given to run(), whatever user_id the selector put in the
\* argument bag.
C25_InvokedUserIsCaller ==
  \A r \in Requests :
    \A i \in DOMAIN obs[r].invoked :
      Declares(obs[r].invoked[i].name, "user_id")
        => obs[r].invoked[i].args.user_id = Some(obs[r].request[1].user_id)

\* the domains in the order of the keyword table
KeywordOrder == <<"balance", "payments", "contacts", "history", "nfts", "help">>
\* some keyword listed for the domain occurs in the lower-cased text
HasKeywordOf(domain, user_input) ==
  \E n \in DOMAIN KEYWORD_TO_DOMAIN :
    /\ KEYWORD_TO_DOMAIN[n].domain = domain
    /\ \E k \in DOMAIN KEYWORD_TO_DOMAIN[n].keywords :
         Contains(Lower(user_input), KEYWORD_TO_DOMAIN[n].keywords[k])

\* C26: keyword_classify returns the first domain, in the order balance,
\* payments, contacts, history, nfts, help, one of whose keywords is a
\* substring of the lower-cased text, and no domain when there is none.
C26_FirstDomainInTableOrder ==
  \A r \in Requests :
    pc[r] = "done"
      => LET text == state[r].user_input
             found == obs[r].keyword_domain[1]
         IN IF \A i \in DOMAIN KeywordOrder : ~HasKeywordOf(KeywordOrder[i], text)
            THEN found = None
            ELSE \E i \in DOMAIN KeywordOrder :
                   /\ found = Some(KeywordOrder[i])
                   /\ HasKeywordOf(KeywordOrder[i], text)
                   /\ \A j \in 1..(i - 1) : ~HasKeywordOf(KeywordOrder[j], text)

\* "help history Balance" has keywords of three domains, the last word the
\* earliest in the table: balance
C26_Witness ==
  \E r \in Requests :
    /\ pc[r] = "done"
    /\ state[r].user_input = JoinWords(<<W_help, W_history, W_Balance>>)
    /\ obs[r].keyword_domain = Some(Some("balance"))

\* C27: when the classifier returns a domain other than conversation, the
\* request's domain, confidence and reason are the decision's, also when the
\* keyword table matches another domain for the text.
C27_DecisionKept ==
  \A r \in Requests :
    (/\ obs[r].classifier # None
     /\ ~obs[r].classifier[1].raised
     /\ obs[r].classifier[1].domain # "conversation")
      => /\ state[r].domain = Some(obs[r].classifier[1].domain)
         /\ state[r].domain_confidence = Some(obs[r].classifier[1].confidence)
         /\ state[r].domain_reason = Some(obs[r].classifier[1].reason)

\* "what's my balance?", a balance keyword, was decided payments and stayed
\* payments to the end
C27_Witness ==
  \E r \in Requests :
    /\ pc[r] = "done"
    /\ Texts[state[r].user_input] = T_balance
    /\ keyword_classify(T_balance) = Some("balance")
    /\ obs[r].classifier = Some(Decision("payments", 90, TRUE))
    /\ state[r].domain = Some("payments")
    /\ state[r].domain_confidence = Some(90)
    /\ state[r].domain_reason = Some(<<"llm">>)

\* C28: when the selector returns and its first tool call has a non-empty
\* name, the selected tool and arguments are that call's, whatever the
\* fallback would select; when it raises, returns no call or an empty name,
\* the selection is the fallback's for the domain and the text: its tool and
\* arguments, or no tool, no arguments and the fallback's message.
C28_FallbackOnlyWithoutCall ==
  \A r \in Requests :
    (pc[r] = "run_tool" /\ obs[r].selector # None)
      => LET out == obs[r].selector[1]
             fb == fallback_of[DomainOf(state[r])][state[r].user_input]
         IN IF ~out.raised /\ out.tool_calls # <<>> /\ out.tool_calls[1].name # ""
            THEN /\ state[r].tool_name = Some(out.tool_calls[1].name)
                 /\ state[r].tool_args = out.tool_calls[1].args
                 /\ state[r].result = None
            ELSE IF Truthy(fb.tool)
            THEN /\ state[r].tool_name = fb.tool
                 /\ state[r].tool_args = Some(fb.args)
            ELSE /\ state[r].tool_name = None
                 /\ state[r].tool_args = Some(NoArgs)
                 /\ fb.msg # None => state[r].result = fb.msg

\* on "send 1 SUI to alice", decided payments, the selector called get_help
\* and then list_contacts: get_help is selected, though the fallback finds
\* send_sui for the text
C28_Witness ==
  \E r \in Requests :
    /\ pc[r] = "run_tool"
    /\ Texts[state[r].user_input] = T_send
    /\ DomainOf(state[r]) = "payments"
    /\ fallback_of["payments"][state[r].user_input].tool = Some("send_sui")
    /\ obs[r].selector =
         Some(ToolCalls(<<Call("get_help", Some(NoArgs)), Call("list_contacts", Some(NoArgs))>>))
    /\ state[r].tool_name = Some("get_help")
    /\ state[r].tool_args = Some(NoArgs)

\* a word that is a number on its own: digits, or digits "." digits
IsNumberToken(w) ==
  /\ w # <<>>
  /\ IsDigit(w[1])
  /\ LET j == RunEnd(DigitSet, w, 1)
     IN \/ j = Len(w)
        \/ /\ j + 2 <= Len(w)
           /\ w[j + 1] = "."
           /\ RunEnd(DigitSet, w, j + 2) = Len(w)
\* a word that is "0x" and 40 to 64 hex digits
IsAddressToken(w) ==
  /\ Len(w) >= 42 /\ Len(w) <= 66
  /\ w[1] = "0" /\ w[2] = "x"
  /\ \A k \in 3..Len(w) : IsHex(w[k])
\* the first word with the property, as a set of at most one index
FirstIndex(indices) == {i \in indices : \A j \in indices : i <= j}
AmountPrompt == <<"Please provide an amount to send, e.g., 'send 1 SUI to alice'.">>
RecipientPrompt == <<"Please provide a recipient (0x address or contact name).">>

\* C29: the payments fallback selects send_sui only for a text with a
\* positive amount and a recipient, the amount being the first word that is
\* a number on its own; without such a word, or with one that is not
\* positive, it asks for an amount, and with an amount and no recipient for
\* a recipient. Digits inside a name or an address are not an amount.
C29_PaymentsNeverGuesses ==
  \A r \in Requests :
    (pc[r] = "done" /\ state[r].domain = "payments")
      => LET words == state[r].words
             sel == obs[r].selection[1]
             numbers == FirstIndex({i \in DOMAIN words : IsNumberToken(words[i])})
             has_recipient ==
               \/ \E i \in DOMAIN words : IsAddressToken(words[i])
               \/ \E i \in 1..(Len(words) - 1) : Lower(words[i]) = W_to
         IN IF numbers = {} \/ \E i \in numbers : number_from(words[i], 1, RunEnd(DigitSet, words[i], 1)).m <= 0
            THEN sel.tool = None /\ sel.msg = Some(AmountPrompt)
            ELSE IF ~has_recipient
            THEN sel.tool = None /\ sel.msg = Some(RecipientPrompt)
            ELSE /\ sel.tool = Some("send_sui")
                 /\ \E i \in numbers :
                      sel.args.amount = Some(number_from(words[i], 1, RunEnd(DigitSet, words[i], 1)))

\* C30: when the payments fallback selects send_sui for a text with a word
\* that is "0x" and 40 to 64 hex digits, the recipient is the first such
\* word, whatever follows "to"; the word after the first "to" is the
\* recipient only in a text without an address.
C30_AddressBeforeName ==
  \A r \in Requests :
    (/\ pc[r] = "done"
     /\ state[r].domain = "payments"
     /\ obs[r].selection[1].tool = Some("send_sui"))
      => LET words == state[r].words
             sel == obs[r].selection[1]
             addresses == FirstIndex({i \in DOMAIN words : IsAddressToken(words[i])})
             tos == FirstIndex({i \in 1..(Len(words) - 1) : Lower(words[i]) = W_to})
         IN IF addresses # {}
            THEN \E i \in addresses : sel.args.recipient = Some(words[i])
            ELSE \E i \in tos : sel.args.recipient = Some(words[i + 1])

\* "1 to bob 0xccc...c": send_sui to the address, not to bob
C30_Witness ==
  \E r \in Requests :
    /\ pc[r] = "done"
    /\ state[r].domain = "payments"
    /\ state[r].words = <<W_1, W_to, W_bob, AddrC>>
    /\ obs[r].selection[1].tool = Some("send_sui")
    /\ obs[r].selection[1].args.recipient = Some(AddrC)
    /\ obs[r].selection[1].args.amount = Some(OneFloat)

\* the word after the first word that is one of the verbs, in any case, as
\* a set of at most one word
WordAfterVerb(words, verbs) ==
  {words[i + 1] : i \in FirstIndex({i \in 1..(Len(words) - 1) : Lower(words[i]) \in verbs})}
RemovePrompt == <<"Please tell me which contact to remove.">>
AddPrompt == <<"To add a contact, say: add alice 0x123...">>

\* C31: in the contacts fallback a text containing "delete" or "remove"
\* selects delete_contact with the word after the verb, or asks which contact,
\* also when it contains "add" or "save"; a text containing "add" or "save"
\* and no removal verb selects add_new_contact when it has a word after the
\* verb and an address, and otherwise shows the add-contact prompt; a text
\* containing none of the four selects list_contacts.
C31_RemovalBeforeCreation ==
  \A r \in Requests :
    (pc[r] = "done" /\ state[r].domain = "contacts")
      => LET words == state[r].words
             text == Lower(state[r].user_input)
             sel == obs[r].selection[1]
             removed == WordAfterVerb(words, {W_delete, W_remove})
             added == WordAfterVerb(words, {W_add, W_save})
             addresses == FirstIndex({i \in DOMAIN words : IsAddressToken(words[i])})
         IN IF Contains(text, W_delete) \/ Contains(text, W_remove)
            THEN IF removed # {}
                 THEN /\ sel.tool = Some("delete_contact")
                      /\ \E name \in removed : sel.args.name = Some(name)
                 ELSE sel.tool = None /\ sel.msg = Some(RemovePrompt)
            ELSE IF Contains(text, W_add) \/ Contains(text, W_save)
            THEN IF added # {} /\ addresses # {}
                 THEN /\ sel.tool = Some("add_new_contact")
                      /\ \E name \in added : sel.args.name = Some(name)
                      /\ \E i \in addresses : sel.args.address = Some(words[i])
                 ELSE sel.tool = None /\ sel.msg = Some(AddPrompt)
            ELSE sel.tool = Some("list_contacts")

\* "add bob 0xccc...c delete": both verbs, and nothing after "delete", so
\* the fallback asks which contact to remove
C31_Witness ==
  \E r \in Requests :
    /\ pc[r] = "done"
    /\ state[r].domain = "contacts"
    /\ state[r].words = <<W_add, W_bob, AddrC, W_delete>>
    /\ obs[r].selection[1].tool = None
    /\ obs[r].selection[1].msg = Some(RemovePrompt)


\* C32: a contacts request that contains no creation or removal verb as a
\* word, "show my address book" among them, makes the fallback select
\* list_contacts and not the add-contact prompt.
C32_ListingSelectsListContacts ==
  \A r \in Requests :
    (/\ pc[r] = "done"
     /\ state[r].domain = "contacts"
     /\ \A i \in DOMAIN state[r].words :
          Lower(state[r].words[i]) \notin {W_add, W_save, W_delete, W_remove})
      => obs[r].selection[1].tool = Some("list_contacts")


Visited(r, node) == \E i \in DOMAIN obs[r].path : obs[r].path[i] = node
UnknownSelected(r) ==
  /\ pc[r] = "done"
  /\ Visited(r, "run_tool")
  /\ Truthy(state[r].tool_name)
  /\ state[r].tool_name[1] \notin DOMAIN agent.tool_registry

\* C33: when the selected action name is not a key of the registry, no
\* action is invoked, the arguments are left as the selector gave them (no
\* context injection), no wallet check is made, and the envelope carries
\* the text "Unknown action: <name>" with needs_signing false and tx_data
\* null.
C33_UnknownActionRefused ==
  \A r \in Requests :
    UnknownSelected(r)
      => /\ obs[r].invoked = <<>>
         /\ obs[r].selector # None
         /\ state[r].tool_args = obs[r].selector[1].tool_calls[1].args
         /\ state[r].error # Some("no_wallet")
         /\ envelope[r] # None
         /\ envelope[r][1].text = <<"[x] Unknown action: ", state[r].tool_name[1]>>
         /\ envelope[r][1].needs_signing = FALSE
         /\ envelope[r][1].tx_data = None

\* the selector named "drain_wallet" with an empty wallet_address and a
\* foreign user_id in the arguments, and the caller has no wallet
C33_Witness ==
  \E r \in Requests :
    /\ UnknownSelected(r)
    /\ state[r].tool_name = Some("drain_wallet")
    /\ state[r].wallet_address = None
    /\ state[r].tool_args # None
    /\ state[r].tool_args[1].wallet_address = Some("")
    /\ state[r].tool_args[1].user_id = Some("mallory")
    /\ envelope[r][1].text = <<"[x] Unknown action: ", "drain_wallet">>


\* C34: for every domain and text, the action name the fallback returns,
\* when it returns one, is a key of the registry and one of the actions of
\* DOMAIN_TOOLS for that domain; for the conversation domain the fallback
\* returns no action and no prompt.
C34_FallbackStaysInDomain ==
  \A r \in Requests :
    pc[r] = "done"
      => LET sel == obs[r].selection[1]
             domain == state[r].domain
         IN /\ sel.tool # None
                 => /\ sel.tool[1] \in DOMAIN agent.tool_registry
                    /\ sel.tool[1] \in Range(agent.domain_tools[domain])
            /\ domain = "conversation" => sel.tool = None /\ sel.msg = None

\* the fallback has answered a help text that asks to clear with
\* reset_conversation, an action of the help domain
C34_Witness ==
  \E r \in Requests :
    /\ pc[r] = "done"
    /\ state[r].domain = "help"
    /\ state[r].words = <<W_clear>>
    /\ obs[r].selection[1].tool = Some("reset_conversation")
    /\ "reset_conversation" \in Range(agent.domain_tools["help"])


DestructiveActions == {"disconnect_wallet", "full_reset"}
SelectorNamed(r) ==
  IF obs[r].selector # None /\ ~obs[r].selector[1].raised
       /\ obs[r].selector[1].tool_calls # <<>>
  THEN {obs[r].selector[1].tool_calls[1].name}
  ELSE {}

\* C35: the fallback never selects disconnect_wallet or full_reset, whatever
\* the domain and the text; a request has one of them as its selected action,
\* or invokes it, only when the selector returned a call with that name.
C35_DestructiveOnlyFromSelector ==
  \A r \in Requests :
    /\ \A d \in Domain :
         fallback_of[d][state[r].user_input].tool \notin {Some(a) : a \in DestructiveActions}
    /\ (Truthy(state[r].tool_name) /\ state[r].tool_name[1] \in DestructiveActions)
         => state[r].tool_name[1] \in SelectorNamed(r)
    /\ \A i \in DOMAIN obs[r].invoked :
         obs[r].invoked[i].name \in DestructiveActions
           => obs[r].invoked[i].name \in SelectorNamed(r)

\* "full reset and disconnect wallet" in the help domain, the selector
\* returned no call, and the fallback had reset_conversation invoked
C35_Witness ==
  \E r \in Requests :
    /\ Texts[state[r].user_input] = T_full_reset
    /\ DomainOf(state[r]) = "help"
    /\ obs[r].selector = Some(ToolCalls(<<>>))
    /\ obs[r].invoked # <<>>
    /\ obs[r].invoked[1].name = "reset_conversation"


\* C36: a registered action that does not declare wallet_address and is not
\* one of the four wallet tools, once selected with a bag of arguments, is
\* never stopped by the no-wallet check: it is invoked in any wallet state,
\* whatever keys the bag contains.
C36_NoWalletCheckWithoutParameter ==
  \A r \in Requests :
    (/\ Visited(r, "run_tool")
     /\ Truthy(state[r].tool_name)
     /\ state[r].tool_name[1] \in ToolNames
     /\ ~Declares(state[r].tool_name[1], "wallet_address")
     /\ state[r].tool_name[1] \notin WALLET_TOOLS
     /\ state[r].tool_args # None)
      => /\ state[r].error # Some("no_wallet")
         /\ Len(obs[r].invoked) = 1
         /\ obs[r].invoked[1].name = state[r].tool_name[1]


\* the limit a call carries, 5 when it carries none
SuppliedLimit(call) ==
  IF call.args.limit = None THEN HISTORY_DEFAULT_LIMIT ELSE call.args.limit[1]
\* the history texts that contain a non-zero number: "last 5 transactions",
\* "last 25 transactions", "history 0.5"
NonZeroNumberTexts == {9, 13, 14}
FallbackActed(r) ==
  /\ obs[r].selector # None
  /\ obs[r].selector[1].raised \/ obs[r].selector[1].tool_calls = <<>>

\* C37: every query get_transaction_history makes on the chain service has a
\* limit in 1..20: the supplied one when it is in that range, 1 when it is
\* below and 20 when it is above, whether the selector or the fallback
\* supplied it; each invocation makes one query; and the fallback passes a
\* limit exactly when the text contains a non-zero number.
C37_HistoryLimitClamped ==
  \A r \in Requests :
    /\ \A i \in DOMAIN obs[r].invoked :
         obs[r].invoked[i].name = "get_transaction_history"
           => /\ Len(obs[r].queries) = 1
              /\ LET supplied == SuppliedLimit(obs[r].invoked[i])
                     limit == obs[r].queries[1].limit
                 IN /\ limit \in 1..20
                    /\ supplied \in 1..20 => limit = supplied
                    /\ supplied < 1 => limit = 1
                    /\ supplied > 20 => limit = 20
    /\ (FallbackActed(r) /\ obs[r].invoked # <<>>)
         => (obs[r].invoked[1].args.limit # None
               <=> state[r].user_input \in NonZeroNumberTexts)


\* "last 25 transactions" with no call from the selector: the fallback
\* passed limit 25 and the chain service was asked for 20
C37_Witness ==
  \E r \in Requests :
    /\ Texts[state[r].user_input] = T_history_many
    /\ FallbackActed(r)
    /\ obs[r].invoked # <<>>
    /\ obs[r].invoked[1].name = "get_transaction_history"
    /\ obs[r].invoked[1].args.limit = Some(25)
    /\ obs[r].queries = <<[address |-> "0xW", limit |-> 20]>>


\* the callers whose contacts the requests write
ContactCallers == {state[r].telegram_id : r \in Requests}
Matching(rows, telegram_id, alias) ==
  {row \in rows : row.telegram_id = telegram_id /\ Lower(row.alias) = Lower(alias)}

\* C38: for each caller that adds and removes contacts a name resolves to at most one address: no two
\* stored contacts of one caller match the same name under resolve_contact's
\* matching, and a name that resolve_contact resolves is removed by
\* remove_contact called with that name, after which it resolves no more.
C38_NameResolvesToOneAddress ==
  \A u \in ContactCallers, name \in ContactAliases :
    /\ Cardinality(Matching(contacts, u, name)) <= 1
    /\ resolve_contact(contacts, u, name) # {None}
         => /\ remove_contact(contacts, u, name) # contacts
            /\ resolve_contact(remove_contact(contacts, u, name), u, name) = {None}


\* the complete calls that returned the session
Completed == {r \in Requests : /\ state[r].op = "complete"
                               /\ obs[r].returned # None
                               /\ obs[r].returned[1].kind = "session"}

\* C39: a linking session is completed at most once: at most one
\* complete_linking_session call for the token returns the session, and a
\* call that starts after one has returned it returns None and links no
\* wallet, in every interleaving of the set_linking_wallet and
\* complete_linking_session calls.
C39_CompletedAtMostOnce ==
  /\ Cardinality(Completed) <= 1
  /\ \A r \in Requests, q \in Completed :
       (state[r].op = "complete" /\ q \in obs[r].after /\ pc[r] = "done")
         => /\ obs[r].returned = Some(ReturnedNone)
            /\ obs[r].linked = {}

============================================================================
